---------------------------- MODULE Spec2Model ----------------------------
(***************************************************************************)
(* A model of the MAD Apartments voice agent relay.                        *)
(*                                                                         *)
(*   src/f/main.py       the session: handle_twilio_connection and its     *)
(*                       three tasks twilio_receiver, sts_sender,          *)
(*                       sts_receiver, and _handle_function_call           *)
(*   src/functions.py    FUNCTION_MAP and execute_function                 *)
(*   src/business_logic.py  ComplaintSystem and its in-memory stores       *)
(*                                                                         *)
(* The tasks are asyncio coroutines: control passes from one task to       *)
(* another only where a task really suspends (a read of a connection, a    *)
(* get on the empty queue, the closing handshake).  A put on the unbounded *)
(* asyncio.Queue and a call of a coroutine that awaits nothing do not      *)
(* suspend, so one loop iteration of a task is one action here.            *)
(***************************************************************************)
EXTENDS Integers, Sequences, FiniteSets, TLC

(***************************************************************************)
(* Program constants (src/f/main.py).                                      *)
(***************************************************************************)
SAMPLE_RATE == 8000
CHUNK_MS == 20
BYTES_PER_CHUNK == (SAMPLE_RATE * CHUNK_MS) \div 1000

(***************************************************************************)
(* Bounds of the model.                                                    *)
(***************************************************************************)
\* telephony messages read by twilio_receiver over one session
MaxTwilioMsgs == 3
\* frames the agent connection emits over one session of the relay
MaxDgMsgs == 1
\* tool calls the agent sends over one session
MaxRequests == 2
\* size in bytes of a short media payload (less than one chunk)
SmallPayload == 80
\* size in bytes of the largest media payload (more than two chunks)
MaxPayload == 330
\* direct calls of execute_function
MaxCalls == 2
\* frames the agent emits in one session of IngressSpec
MaxIngressFrames == 3
\* frames the agent emits in one session of ControlSpec
MaxControlFrames == 2
\* calls the server accepts in SessionsSpec
MaxSessions == 2
\* media events telephony sends over one call of SessionsSpec
MaxCallMsgs == 1
\* calls of the ticket store in StoreSpec
MaxStoreCalls == 3
\* the largest SLA hour count given to _sla_to_words in SlaSpec
MaxSlaHours == 100
\* runs of build_index in IndexSpec
MaxBuilds == 3
\* characters a word of a document takes, with the space after it
WordChars == 8
\* telephony messages read by the legacy twilio_receiver
MaxLegacyMsgs == 3
\* frames the agent connection emits to the legacy relay
MaxLegacyFrames == 1

(***************************************************************************)
(* Values.                                                                 *)
(***************************************************************************)
\* the end-of-stream sentinel of the audio queue: Python's None
None == <<"None">>

\* n bytes of audio; byte k of the telephony stream has value k % 256, so
\* that a lost, repeated or reordered byte shows
Bytes(from, n) == [i \in 1..n |-> (from + i - 1) % 256]

PayloadSizes == {SmallPayload, BYTES_PER_CHUNK, MaxPayload}

\* base64.b64encode(raw).decode(): the text of the bytes
b64encode(raw) == [b64 |-> raw]
\* base64.b64decode(payload): the bytes of a well-formed text
b64decode(payload) == payload.b64

(***************************************************************************)
(* Strings.  The arguments of a tool call are JSON values; the model draws *)
(* them from the finite sets below.  str.strip, str.lower and str.upper    *)
(* are given by what they do to these strings.                             *)
(***************************************************************************)
\* a JSON number where a string is expected: 101 instead of "101"
JsonNumber == "<number 101>"
isinstance_str(v) == v # JsonNumber

StripTable ==
    [s \in {" 101 ", " gas_leak ", " Plumbing", " plumbing",
            " mad-a1b2c3d4 ", " mad-0f9e8d7c ", " fire "} |->
        CASE s = " 101 " -> "101"
          [] s = " gas_leak " -> "gas_leak"
          [] s = " Plumbing" -> "Plumbing"
          [] s = " plumbing" -> "plumbing"
          [] s = " mad-a1b2c3d4 " -> "mad-a1b2c3d4"
          [] s = " mad-0f9e8d7c " -> "mad-0f9e8d7c"
          [] s = " fire " -> "fire"]
\* a strip that trims nothing: what C34_CategoryNormalised must exclude
strip_none(s) == s

strip(s) == IF s \in DOMAIN StripTable THEN StripTable[s] ELSE s

LowerTable ==
    [s \in {"GAS_LEAK", " Plumbing", "Plumbing", "MAD-A1B2C3D4",
            "MAD-0F9E8D7C", " FIRE ", "Balcony"} |->
        CASE s = "GAS_LEAK" -> "gas_leak"
          [] s = " Plumbing" -> " plumbing"
          [] s = "Plumbing" -> "plumbing"
          [] s = "MAD-A1B2C3D4" -> "mad-a1b2c3d4"
          [] s = "MAD-0F9E8D7C" -> "mad-0f9e8d7c"
          [] s = " FIRE " -> " fire "
          [] s = "Balcony" -> "balcony"]
lower(s) == IF s \in DOMAIN LowerTable THEN LowerTable[s] ELSE s

UpperTable ==
    [s \in {"mad-a1b2c3d4", "mad-0f9e8d7c", "a1b2c3d4", "0f9e8d7c"} |->
        CASE s = "mad-a1b2c3d4" -> "MAD-A1B2C3D4"
          [] s = "mad-0f9e8d7c" -> "MAD-0F9E8D7C"
          [] s = "a1b2c3d4" -> "A1B2C3D4"
          [] s = "0f9e8d7c" -> "0F9E8D7C"]
upper(s) == IF s \in DOMAIN UpperTable THEN UpperTable[s] ELSE s

\* json.dumps(value): the JSON text of value; json.loads(text): its value
json_dumps(value) == [json |-> value]
json_loads(text) == text.json

\* obj.get(key, default) of a dict
Get(d, key, default) == IF key \in DOMAIN d THEN d[key] ELSE default

\* the dict with one more item
Put(d, key, value) ==
    [k \in DOMAIN d \cup {key} |-> IF k = key THEN value ELSE d[k]]

(***************************************************************************)
(* src/business_logic.py: the in-memory stores and the category table.     *)
(***************************************************************************)
TENANTS ==
    [u \in {"101", "202", "305", "410"} |->
        CASE u = "101" -> [name |-> "Priya Sharma"]
          [] u = "202" -> [name |-> "James O'Brien"]
          [] u = "305" -> [name |-> "Aisha Patel"]
          [] u = "410" -> [name |-> "Carlos Mendez"]]

Entry(label, sla_hours, team, priority) ==
    [label |-> label, sla_hours |-> sla_hours, team |-> team,
     priority |-> priority]

EMERGENCY_CATEGORIES ==
    {"gas_leak", "fire", "flood", "structural_damage", "no_heat_winter",
     "power_outage", "security_breach", "medical_emergency"}

NON_EMERGENCY_KEYS ==
    {"plumbing", "electrical", "hvac", "appliance", "pest", "noise_complaint",
     "neighbour_dispute", "parking", "common_area", "lift", "entry_system",
     "rubbish", "leaking", "damp_mould", "other"}

COMPLAINT_CONFIG ==
    [c \in EMERGENCY_CATEGORIES \cup NON_EMERGENCY_KEYS |->
        CASE c = "gas_leak" -> Entry("Gas Leak", 1, "Emergency Response", 1)
          [] c = "fire" -> Entry("Fire / Smoke", 1, "Emergency Response", 1)
          [] c = "flood" ->
                Entry("Flooding / Burst Pipe", 2, "Emergency Response", 1)
          [] c = "structural_damage" ->
                Entry("Structural Damage", 2, "Emergency Response", 1)
          [] c = "no_heat_winter" ->
                Entry("No Heating (Winter)", 4, "Emergency Maintenance", 2)
          [] c = "power_outage" ->
                Entry("Power Outage", 4, "Emergency Maintenance", 2)
          [] c = "security_breach" ->
                Entry("Security / Break-in", 2, "Security Team", 1)
          [] c = "medical_emergency" ->
                Entry("Medical Emergency", 0, "Emergency Services (999)", 1)
          [] c = "plumbing" -> Entry("Plumbing Issue", 24, "Maintenance Team", 3)
          [] c = "electrical" ->
                Entry("Electrical Issue", 24, "Maintenance Team", 3)
          [] c = "hvac" -> Entry("Heating / AC Issue", 24, "Maintenance Team", 3)
          [] c = "appliance" ->
                Entry("Appliance Fault", 48, "Maintenance Team", 4)
          [] c = "pest" -> Entry("Pest Infestation", 48, "Pest Control Team", 4)
          [] c = "noise_complaint" ->
                Entry("Noise Complaint", 24, "Property Management", 3)
          [] c = "neighbour_dispute" ->
                Entry("Neighbour Dispute", 48, "Property Management", 4)
          [] c = "parking" -> Entry("Parking Issue", 48, "Property Management", 4)
          [] c = "common_area" ->
                Entry("Common Area Issue", 48, "Facilities Team", 4)
          [] c = "lift" ->
                Entry("Lift / Elevator Issue", 12, "Maintenance Team", 3)
          [] c = "entry_system" ->
                Entry("Entry System / Keys", 12, "Maintenance Team", 3)
          [] c = "rubbish" -> Entry("Waste / Rubbish", 72, "Facilities Team", 5)
          [] c = "leaking" ->
                Entry("Leak (non-urgent)", 24, "Maintenance Team", 3)
          [] c = "damp_mould" -> Entry("Damp / Mould", 72, "Maintenance Team", 4)
          [] c = "other" ->
                Entry("General Complaint", 48, "Property Management", 4)]

\* ASSURANCE_SCRIPTS has a script for every category of COMPLAINT_CONFIG
ASSURANCE_SCRIPTS ==
    [c \in DOMAIN COMPLAINT_CONFIG |-> <<"assurance script", c>>]

\* the plural from one day on: what C35_SlaToWords must exclude
sla_to_words_plural_from_one(hours) ==
    IF hours = 0 THEN <<"immediate - call 999 now">>
    ELSE IF hours = 1 THEN <<"within 1 hour">>
    ELSE IF hours < 24 THEN <<"within", hours, "hours">>
    ELSE LET days == hours \div 24
         IN  <<"within", days,
               IF days >= 1 THEN "working days" ELSE "working day">>

\* _sla_to_words(hours); the formatted text is the tuple of its parts
sla_to_words(hours) ==
    IF hours = 0 THEN <<"immediate - call 999 now">>
    ELSE IF hours = 1 THEN <<"within 1 hour">>
    ELSE IF hours < 24 THEN <<"within", hours, "hours">>
    ELSE LET days == hours \div 24
         IN  <<"within", days,
               IF days > 1 THEN "working days" ELSE "working day">>

\* _build_response_plan; the text is named by the branch that builds it and
\* the values it formats in
build_response_plan(category, label, team, sla_hours, is_emergency) ==
    IF category = "medical_emergency" THEN <<"medical plan">>
    ELSE IF is_emergency
    THEN <<"emergency plan", team, sla_to_words(sla_hours)>>
    ELSE <<"standard plan", label, team, sla_to_words(sla_hours)>>

(***************************************************************************)
(* ComplaintSystem.  Each operation gives [raised, exc, result, store]:    *)
(* whether it raised, the exception, the dict returned, and the COMPLAINTS *)
(* store it leaves.                                                        *)
(***************************************************************************)
Returned(result, store) ==
    [raised |-> FALSE, exc |-> "", result |-> result, store |-> store]
Raised(exc, store) ==
    [raised |-> TRUE, exc |-> exc, result |-> <<>>, store |-> store]

\* a lookup by TENANTS[unit_number] for TENANTS.get(unit_number): a unit that
\* is not registered raises KeyError; what C25_VerifyTenant must exclude
verify_tenant_keyerror(args, store) ==
    LET unit_number == args.unit_number
    IN  IF ~isinstance_str(unit_number)
        THEN Raised("AttributeError: no attribute 'strip'", store)
        ELSE IF strip(unit_number) \in DOMAIN TENANTS
        THEN Returned([verified |-> TRUE,
                       unit_number |-> unit_number,
                       tenant_name |-> TENANTS[strip(unit_number)].name],
                      store)
        ELSE Raised("KeyError", store)

verify_tenant(args, store) ==
    LET unit_number == args.unit_number
    IN  IF ~isinstance_str(unit_number)
        THEN Raised("AttributeError: no attribute 'strip'", store)
        ELSE IF strip(unit_number) \in DOMAIN TENANTS
        THEN Returned([verified |-> TRUE,
                       unit_number |-> unit_number,
                       tenant_name |-> TENANTS[strip(unit_number)].name],
                      store)
        ELSE Returned([verified |-> FALSE,
                       message |-> <<"I couldn't find unit", unit_number>>],
                      store)

\* the table entry unpacked as (label, priority, team, sla_hours): the SLA
\* hours and the priority change places; what C26_FileComplaint must exclude
file_complaint_unpack_swapped(args, store, uuid8, now) ==
    IF ~isinstance_str(args.category)
    THEN Raised("AttributeError: no attribute 'lower'", store)
    ELSE
    LET given == strip(lower(args.category))
        category == IF given \notin DOMAIN COMPLAINT_CONFIG
                    THEN "other" ELSE given
        entry == COMPLAINT_CONFIG[category]
        cfg == Entry(entry.label, entry.priority, entry.team, entry.sla_hours)
        is_emergency == category \in EMERGENCY_CATEGORIES
        ticket_id == "MAD-" \o upper(uuid8)
        deadline == IF cfg.sla_hours > 0 THEN now + cfg.sla_hours ELSE now
        response_plan == build_response_plan(category, cfg.label, cfg.team,
                                             cfg.sla_hours, is_emergency)
        record == [ticket_id |-> ticket_id,
                   unit_number |-> args.unit_number,
                   tenant_name |-> args.tenant_name,
                   contact_number |-> Get(args, "contact_number", "None"),
                   category |-> category,
                   label |-> cfg.label,
                   description |-> args.description,
                   is_emergency |-> is_emergency,
                   priority |-> cfg.priority,
                   team |-> cfg.team,
                   sla_hours |-> cfg.sla_hours,
                   status |-> "open",
                   created_at |-> now,
                   deadline |-> deadline,
                   response_plan |-> response_plan]
    IN  Returned([success |-> TRUE,
                  ticket_id |-> ticket_id,
                  is_emergency |-> is_emergency,
                  label |-> cfg.label,
                  team |-> cfg.team,
                  sla_hours |-> cfg.sla_hours,
                  sla_description |-> sla_to_words(cfg.sla_hours),
                  response_plan |-> response_plan,
                  assurance_message |-> ASSURANCE_SCRIPTS[category]],
                 Put(store, ticket_id, record))

\* uuid8 is str(uuid.uuid4())[:8]; now is datetime.utcnow(), in hours
file_complaint(args, store, uuid8, now) ==
    IF ~isinstance_str(args.category)
    THEN Raised("AttributeError: no attribute 'lower'", store)
    ELSE
    LET given == strip(lower(args.category))
        category == IF given \notin DOMAIN COMPLAINT_CONFIG
                    THEN "other" ELSE given
        cfg == COMPLAINT_CONFIG[category]
        is_emergency == category \in EMERGENCY_CATEGORIES
        ticket_id == "MAD-" \o upper(uuid8)
        deadline == IF cfg.sla_hours > 0 THEN now + cfg.sla_hours ELSE now
        response_plan == build_response_plan(category, cfg.label, cfg.team,
                                             cfg.sla_hours, is_emergency)
        record == [ticket_id |-> ticket_id,
                   unit_number |-> args.unit_number,
                   tenant_name |-> args.tenant_name,
                   contact_number |-> Get(args, "contact_number", "None"),
                   category |-> category,
                   label |-> cfg.label,
                   description |-> args.description,
                   is_emergency |-> is_emergency,
                   priority |-> cfg.priority,
                   team |-> cfg.team,
                   sla_hours |-> cfg.sla_hours,
                   status |-> "open",
                   created_at |-> now,
                   deadline |-> deadline,
                   response_plan |-> response_plan]
    IN  Returned([success |-> TRUE,
                  ticket_id |-> ticket_id,
                  is_emergency |-> is_emergency,
                  label |-> cfg.label,
                  team |-> cfg.team,
                  sla_hours |-> cfg.sla_hours,
                  sla_description |-> sla_to_words(cfg.sla_hours),
                  response_plan |-> response_plan,
                  assurance_message |-> ASSURANCE_SCRIPTS[category]],
                 Put(store, ticket_id, record))

check_complaint_status(args, store, now) ==
    LET ticket_id == args.ticket_id
    IN  IF ~isinstance_str(ticket_id)
        THEN Raised("AttributeError: no attribute 'strip'", store)
        ELSE IF upper(strip(ticket_id)) \notin DOMAIN store
        THEN Returned([found |-> FALSE,
                       message |-> <<"I couldn't find ticket", ticket_id>>],
                      store)
        ELSE LET ticket == store[upper(strip(ticket_id))]
                 left == ticket.deadline - now
             IN  Returned([found |-> TRUE,
                           ticket_id |-> ticket_id,
                           label |-> ticket.label,
                           status |-> ticket.status,
                           team |-> ticket.team,
                           created_at |-> ticket.created_at,
                           sla_description |-> sla_to_words(ticket.sla_hours),
                           hours_remaining |-> IF left > 0 THEN left ELSE 0,
                           response_plan |-> ticket.response_plan,
                           is_emergency |-> ticket.is_emergency],
                          store)

\* the tickets of the store whose unit_number equals the argument; a dict
\* keeps insertion order, which the model gives as the set of the summaries
list_tenant_complaints(args, store) ==
    LET unit_number == args.unit_number
        tickets == {[ticket_id |-> store[k].ticket_id,
                     label |-> store[k].label,
                     status |-> store[k].status,
                     created_at |-> store[k].created_at,
                     sla_description |-> sla_to_words(store[k].sla_hours)] :
                    k \in {j \in DOMAIN store :
                             store[j].unit_number = unit_number}}
    IN  IF tickets = {}
        THEN Returned([found |-> FALSE,
                       message |-> <<"There are no logged complaints for unit",
                                     unit_number>>],
                      store)
        ELSE Returned([found |-> TRUE,
                       unit_number |-> unit_number,
                       count |-> Cardinality(tickets),
                       complaints |-> tickets],
                      store)

get_complaint_categories(store) ==
    LET item(k) == [category |-> k, label |-> COMPLAINT_CONFIG[k].label,
                    sla |-> sla_to_words(COMPLAINT_CONFIG[k].sla_hours)]
    IN  Returned(
          [emergency_categories |->
             {item(k) : k \in DOMAIN COMPLAINT_CONFIG \cap EMERGENCY_CATEGORIES},
           non_emergency_categories |->
             {item(k) : k \in DOMAIN COMPLAINT_CONFIG \ EMERGENCY_CATEGORIES}],
          store)

(***************************************************************************)
(* src/functions.py: the routing map and execute_function.                 *)
(***************************************************************************)
agent_filler(args, store) ==
    Returned([success |-> TRUE, message |-> args.message], store)

\* the parameters of each function of FUNCTION_MAP: those without a default
\* and those with one
Signature(required, optional) == [required |-> required, optional |-> optional]

FUNCTION_MAP ==
    [n \in {"agent_filler", "verify_tenant", "get_complaint_categories",
            "file_complaint", "check_complaint_status",
            "list_tenant_complaints"} |->
        CASE n = "agent_filler" -> Signature({"message"}, {})
          [] n = "verify_tenant" -> Signature({"unit_number"}, {})
          [] n = "get_complaint_categories" -> Signature({}, {})
          [] n = "file_complaint" ->
                Signature({"unit_number", "category", "description",
                           "tenant_name"}, {"contact_number"})
          [] n = "check_complaint_status" -> Signature({"ticket_id"}, {})
          [] n = "list_tenant_complaints" -> Signature({"unit_number"}, {})]

\* one entry of FUNCTION_DEFINITIONS: the name, the properties of its
\* parameters object and those listed as required, and the client_side flag
FunctionDefinition(name, properties, required) ==
    [name |-> name,
     parameters |-> [properties |-> properties, required |-> required],
     client_side |-> "true"]

\* the schema with a function that FUNCTION_MAP does not hold: what
\* C19_SchemaMatchesRegistry must exclude
FUNCTION_DEFINITIONS_with_search ==
    <<FunctionDefinition("agent_filler", {"message"}, {"message"}),
      FunctionDefinition("verify_tenant", {"unit_number"}, {"unit_number"}),
      FunctionDefinition("get_complaint_categories", {}, {}),
      FunctionDefinition("file_complaint",
                         {"unit_number", "category", "description",
                          "tenant_name", "contact_number"},
                         {"unit_number", "category", "description",
                          "tenant_name"}),
      FunctionDefinition("check_complaint_status", {"ticket_id"},
                         {"ticket_id"}),
      FunctionDefinition("search_knowledge_base", {"query"}, {"query"})>>

FUNCTION_DEFINITIONS ==
    <<FunctionDefinition("agent_filler", {"message"}, {"message"}),
      FunctionDefinition("verify_tenant", {"unit_number"}, {"unit_number"}),
      FunctionDefinition("get_complaint_categories", {}, {}),
      FunctionDefinition("file_complaint",
                         {"unit_number", "category", "description",
                          "tenant_name", "contact_number"},
                         {"unit_number", "category", "description",
                          "tenant_name"}),
      FunctionDefinition("check_complaint_status", {"ticket_id"},
                         {"ticket_id"}),
      FunctionDefinition("list_tenant_complaints", {"unit_number"},
                         {"unit_number"})>>

\* load_config(): config.json with the function definitions put in at
\* cfg["agent"]["think"]["functions"]
load_config == [agent |-> [think |-> [functions |-> FUNCTION_DEFINITIONS]]]

\* arguments that are JSON text, not an object: ** needs a mapping
is_mapping(arguments) == "json" \notin DOMAIN arguments

\* await fn(**arguments): the call binds the arguments to the parameters
\* (TypeError when one is missing or unexpected), then runs the body
call(name, arguments, store, uuid8, now) ==
    IF ~is_mapping(arguments)
    THEN Raised("TypeError: argument after ** must be a mapping", store)
    ELSE IF ~(FUNCTION_MAP[name].required \subseteq DOMAIN arguments)
    THEN Raised("TypeError: missing required positional argument", store)
    ELSE IF ~(DOMAIN arguments \subseteq
                FUNCTION_MAP[name].required \cup FUNCTION_MAP[name].optional)
    THEN Raised("TypeError: got an unexpected keyword argument", store)
    ELSE CASE name = "agent_filler" -> agent_filler(arguments, store)
           [] name = "verify_tenant" -> verify_tenant(arguments, store)
           [] name = "get_complaint_categories" ->
                 get_complaint_categories(store)
           [] name = "file_complaint" ->
                 file_complaint(arguments, store, uuid8, now)
           [] name = "check_complaint_status" ->
                 check_complaint_status(arguments, store, now)
           [] name = "list_tenant_complaints" ->
                 list_tenant_complaints(arguments, store)

\* execute_function without "except Exception": what the capability raises
\* reaches the caller; what C11_FaultIsAnswered must exclude
execute_function_reraises(name, arguments, store, uuid8, now) ==
    IF name \notin DOMAIN FUNCTION_MAP
    THEN [raised |-> FALSE,
          content |-> json_dumps([success |-> FALSE,
                                  error |-> <<"Unknown function: ", name>>]),
          store |-> store]
    ELSE LET r == call(name, arguments, store, uuid8, now)
         IN  [raised |-> r.raised,
              content |-> json_dumps(IF r.raised THEN <<>> ELSE r.result),
              store |-> r.store]

\* a lookup by FUNCTION_MAP[name] ahead of the try block: an unknown name
\* raises KeyError to the caller; what C10_UnknownFunction must exclude
execute_function_unguarded(name, arguments, store, uuid8, now) ==
    IF name \notin DOMAIN FUNCTION_MAP
    THEN [raised |-> TRUE, content |-> json_dumps(<<"KeyError", name>>),
          store |-> store]
    ELSE LET r == call(name, arguments, store, uuid8, now)
         IN  [raised |-> FALSE,
              content |-> json_dumps(IF r.raised
                                     THEN [success |-> FALSE, error |-> r.exc]
                                     ELSE r.result),
              store |-> r.store]

\* execute_function(name, arguments): [raised, content, store]; every
\* exception of the try block is caught and becomes a failed result
execute_function(name, arguments, store, uuid8, now) ==
    IF name \notin DOMAIN FUNCTION_MAP
    THEN [raised |-> FALSE,
          content |-> json_dumps([success |-> FALSE,
                                  error |-> <<"Unknown function: ", name>>]),
          store |-> store]
    ELSE LET r == call(name, arguments, store, uuid8, now)
         IN  IF r.raised
             THEN [raised |-> FALSE,
                   content |-> json_dumps([success |-> FALSE, error |-> r.exc]),
                   store |-> r.store]
             ELSE [raised |-> FALSE,
                   content |-> json_dumps(r.result),
                   store |-> r.store]

(***************************************************************************)
(* The inputs the model draws.                                             *)
(***************************************************************************)
\* str(uuid.uuid4())[:8]
Uuid8s == {"a1b2c3d4", "0f9e8d7c"}

FileArgs(category) ==
    [unit_number |-> "202", category |-> category,
     description |-> "smell of gas", tenant_name |-> "James O'Brien"]

\* the arguments of a direct call: every shape a caller may send
CallArguments ==
    {<<>>, [message |-> "Let me pull that up for you."]}
    \cup {[unit_number |-> u] : u \in {"101", " 101 ", "999", JsonNumber}}
    \cup {[unit_number |-> "101", floor |-> "1"]}
    \cup {[ticket_id |-> t] :
            t \in {"MAD-A1B2C3D4", " mad-a1b2c3d4 ", "MAD-FFFFFFFF"}}
    \cup {FileArgs(c) : c \in {"gas_leak", " Plumbing", "balcony", JsonNumber}}
    \cup {Put(FileArgs("rubbish"), "contact_number", "+447700900002")}
    \cup {json_dumps([unit_number |-> "101"])}

CallNames == DOMAIN FUNCTION_MAP \cup {"search_knowledge_base", "None"}

\* the FunctionCallRequests the agent may send: a registered function that
\* changes the store, with its arguments as an object or as JSON text (which
\* makes the call raise), and an unregistered function, under two correlation
\* ids; client_side true, false, null or absent
RequestBodies ==
    {[name |-> "file_complaint", id |-> "c1",
      arguments |-> FileArgs("gas_leak")],
     [name |-> "file_complaint", id |-> "c1",
      arguments |-> json_dumps(FileArgs("gas_leak"))],
     [name |-> "transfer_call", id |-> "c2", arguments |-> <<>>]}

Requests ==
    RequestBodies
    \cup {Put(b, "client_side", c) :
            b \in RequestBodies, c \in {"true", "false", "null"}}

\* tool calls whose arguments do not fit the function: one argument missing,
\* one too many
FaultRequests ==
    {[name |-> "verify_tenant", id |-> "c3", arguments |-> <<>>],
     [name |-> "verify_tenant", id |-> "c4",
      arguments |-> [unit_number |-> "101", floor |-> "1"]]}

RECURSIVE Concat(_)
Concat(frames) ==
    IF frames = <<>> THEN <<>> ELSE Head(frames) \o Concat(Tail(frames))

IsPrefix(s, t) == Len(s) <= Len(t) /\ SubSeq(t, 1, Len(s)) = s

VARIABLES
    hpc,            \* handle_twilio_connection: where the handler is
    tpc,            \* twilio_receiver: "idle", "run" or "done"
    spc,            \* sts_sender: "idle", "run", "closing" or "done"
    rpc,            \* sts_receiver: "idle", "run" or "done"
    twOpen,         \* the telephony connection ws_twilio is open
    dgState,        \* the agent connection ws_dg: "none", "open", "closed"
    dgInbox,        \* frames the agent emitted that sts_receiver has not read
    buf,            \* twilio_receiver's residual buffer
    audio_queue,    \* the session's asyncio.Queue
    sentToDg,       \* what was sent on the agent connection, in order
    sentToTwilio,   \* what was sent on the telephony connection, in order
    nTw,            \* telephony messages read so far
    nDg,            \* agent frames emitted so far
    emitted,        \* every frame the agent emitted, in the order emitted
    \* history, for the properties
    fed,            \* concatenation of every payload appended to buf
    enq,            \* every audio frame put on the queue, in order
    stopSeen,       \* twilio_receiver has read a stop event
    startSid,       \* the streamSid of the start event read, or "None"
    sentinelGot,    \* sts_sender has dequeued the sentinel
    senderFault,    \* sts_sender ended on an exception of ws_dg.send
    senderCloses,   \* calls of ws_dg.close() by sts_sender
    dgClosings,     \* times the agent connection went from open to closed
    COMPLAINTS,     \* business_logic.COMPLAINTS, the ticket store
    received,       \* every FunctionCallRequest sts_receiver has read
    executed,       \* those of them execute_function was called for
    lastCall,       \* the last direct call of execute_function: its input
    lastResult,     \* and what it gave
    nCalls,         \* direct calls of execute_function so far
    \* the process around the session
    DEEPGRAM_API_KEY,   \* os.environ.get("DEEPGRAM_API_KEY"), or "None"
    mainpc,         \* the process: "import", "main", "serve" or "raised"
    \* several sessions side by side (SessionsSpec)
    calls,          \* the state of each call's handler and tasks
    queues,         \* the asyncio.Queue objects created so far
    \* the legacy relay (src/main.py) and the tracks of telephony audio
    legacy,         \* the state of twilio_handler and its three tasks
    appendedTracks, \* the track of every media event whose payload
                    \* twilio_receiver appended to buf, in order
    filed,          \* every ticket file_complaint returned (StoreSpec)
    \* the knowledge index (src/f/rag_engine.py)
    knowledge_base, \* the documents of knowledge_base/, sorted by path
    chroma          \* the entries of the ChromaDB collection, as added

vars == <<hpc, tpc, spc, rpc, twOpen, dgState, dgInbox, buf, audio_queue,
          sentToDg, sentToTwilio, nTw, nDg, emitted, fed, enq, stopSeen,
          startSid, sentinelGot,
          senderFault, senderCloses, dgClosings, COMPLAINTS, received,
          executed, lastCall, lastResult, nCalls, DEEPGRAM_API_KEY, mainpc,
          calls, queues, legacy, appendedTracks, filed, knowledge_base,
          chroma>>

netVars == <<twOpen, dgState, dgInbox, sentToDg, sentToTwilio, nDg, emitted,
             dgClosings>>
ingestVars == <<buf, audio_queue, nTw, fed, enq, stopSeen, startSid>>
senderVars == <<sentinelGot, senderFault, senderCloses>>
bridgeVars == <<COMPLAINTS, received, executed>>
processVars == <<DEEPGRAM_API_KEY, mainpc>>
indexVars == <<knowledge_base, chroma>>
legacyVars == <<legacy, appendedTracks, filed, indexVars>>
sessionsVars == <<calls, queues, legacyVars>>
directVars == <<lastCall, lastResult, nCalls, processVars, sessionsVars>>
domainVars == <<COMPLAINTS, received, executed, directVars>>

(***************************************************************************)
(* The frame chunker of twilio_receiver (src/f/main.py:63-66):             *)
(*     buf.extend(data)                                                    *)
(*     while len(buf) >= BYTES_PER_CHUNK:                                  *)
(*         await audio_queue.put(bytes(buf[:BYTES_PER_CHUNK]))             *)
(*         buf = buf[BYTES_PER_CHUNK:]                                     *)
(* chunk(b, out) is the loop: the frames put, then the buffer left.        *)
(***************************************************************************)
\* the loop with ">" for ">=": what C5_FrameLength must exclude
RECURSIVE chunk_gt(_, _)
chunk_gt(b, out) ==
    IF Len(b) > BYTES_PER_CHUNK
    THEN chunk_gt(SubSeq(b, BYTES_PER_CHUNK + 1, Len(b)),
                  Append(out, SubSeq(b, 1, BYTES_PER_CHUNK)))
    ELSE [frames |-> out, rest |-> b]

\* the loop with the rest cut one byte late: what C6_NoByteLost must exclude
RECURSIVE chunk_skip(_, _)
chunk_skip(b, out) ==
    IF Len(b) >= BYTES_PER_CHUNK
    THEN chunk_skip(SubSeq(b, BYTES_PER_CHUNK + 2, Len(b)),
                    Append(out, SubSeq(b, 1, BYTES_PER_CHUNK)))
    ELSE [frames |-> out, rest |-> b]

RECURSIVE chunk(_, _)
chunk(b, out) ==
    IF Len(b) >= BYTES_PER_CHUNK
    THEN chunk(SubSeq(b, BYTES_PER_CHUNK + 1, Len(b)),
               Append(out, SubSeq(b, 1, BYTES_PER_CHUNK)))
    ELSE [frames |-> out, rest |-> b]

(***************************************************************************)
(* Telephony Ingest: twilio_receiver (src/f/main.py:54-80).                *)
(***************************************************************************)
\* a finally clause that puts no sentinel: what C2_StopEndsSession must
\* exclude
twilio_receiver_finally_no_sentinel ==
    /\ audio_queue' = audio_queue
    /\ tpc' = "done"

\* a sentinel put by the branch that ends the loop and again by the finally
\* clause: what C29_OneSentinelLast must exclude
twilio_receiver_finally_twice ==
    /\ audio_queue' = audio_queue \o <<None, None>>
    /\ tpc' = "done"

\* finally: await audio_queue.put(None)
twilio_receiver_finally ==
    /\ audio_queue' = Append(audio_queue, None)
    /\ tpc' = "done"

\* a media event with a well-formed payload of n bytes
twilio_receiver_media(n) ==
    /\ tpc = "run" /\ twOpen /\ nTw < MaxTwilioMsgs
    /\ LET msg == [event |-> "media",
                   media |-> [payload |-> b64encode(Bytes(Len(fed), n))]]
           data == b64decode(msg.media.payload)
           c == chunk(buf \o data, <<>>)
       IN  /\ buf' = c.rest
           /\ audio_queue' = audio_queue \o c.frames
           /\ enq' = enq \o c.frames
           /\ fed' = fed \o data
    /\ nTw' = nTw + 1
    /\ UNCHANGED <<hpc, tpc, spc, rpc, stopSeen, startSid>>
    /\ UNCHANGED netVars /\ UNCHANGED senderVars
    /\ UNCHANGED domainVars

\* the tracks a media event of telephony may carry
Tracks == {"inbound", "outbound"}

\* a media event of n bytes that names its track: msg["media"]["track"] is
\* never read, the payload is appended to buf whatever the track
twilio_receiver_media_track(n, track) ==
    /\ tpc = "run" /\ twOpen /\ nTw < MaxTwilioMsgs
    /\ LET msg == [event |-> "media",
                   media |-> [track |-> track,
                              payload |-> b64encode(Bytes(Len(fed), n))]]
           data == b64decode(msg.media.payload)
           c == chunk(buf \o data, <<>>)
       IN  /\ buf' = c.rest
           /\ audio_queue' = audio_queue \o c.frames
           /\ enq' = enq \o c.frames
           /\ fed' = fed \o data
           /\ appendedTracks' = Append(appendedTracks, msg.media.track)
    /\ nTw' = nTw + 1
    /\ UNCHANGED <<hpc, tpc, spc, rpc, stopSeen, startSid>>
    /\ UNCHANGED netVars /\ UNCHANGED senderVars
    /\ UNCHANGED <<COMPLAINTS, received, executed, lastCall, lastResult,
                   nCalls, processVars, calls, queues, legacy, filed,
                   indexVars>>

\* the streamSid telephony gives the call's stream in its start event
StartStreamSid == "MZ18ad3ab5a668481ce02b83e7395059f0"

\* a start event: msg.get('streamSid') is logged and twilio_receiver keeps
\* nothing of it (startSid only records what the event announced)
twilio_receiver_start ==
    /\ tpc = "run" /\ twOpen /\ nTw < MaxTwilioMsgs
    /\ nTw' = nTw + 1
    /\ startSid' = StartStreamSid
    /\ UNCHANGED <<hpc, tpc, spc, rpc, buf, audio_queue, fed, enq, stopSeen>>
    /\ UNCHANGED netVars /\ UNCHANGED senderVars
    /\ UNCHANGED domainVars

\* a stop event: break, then the finally clause
twilio_receiver_stop ==
    /\ tpc = "run" /\ twOpen /\ nTw < MaxTwilioMsgs
    /\ nTw' = nTw + 1
    /\ stopSeen' = TRUE
    /\ UNCHANGED startSid
    /\ twilio_receiver_finally
    /\ UNCHANGED <<hpc, spc, rpc, buf, fed, enq>>
    /\ UNCHANGED netVars /\ UNCHANGED senderVars
    /\ UNCHANGED domainVars

\* a message json.loads rejects, a JSON value that is no object, or a media
\* event without a decodable payload: the exception leaves the loop through
\* "except Exception", then the finally clause
twilio_receiver_fault ==
    /\ tpc = "run" /\ twOpen /\ nTw < MaxTwilioMsgs
    /\ nTw' = nTw + 1
    /\ twilio_receiver_finally
    /\ UNCHANGED <<hpc, spc, rpc, buf, fed, enq, stopSeen, startSid>>
    /\ UNCHANGED netVars /\ UNCHANGED senderVars
    /\ UNCHANGED domainVars

\* the telephony connection is closed: the iteration ends (or raises
\* ConnectionClosed, which is caught), then the finally clause
twilio_receiver_closed ==
    /\ tpc = "run" /\ ~twOpen
    /\ twilio_receiver_finally
    /\ UNCHANGED <<hpc, spc, rpc, buf, nTw, fed, enq, stopSeen, startSid>>
    /\ UNCHANGED netVars /\ UNCHANGED senderVars
    /\ UNCHANGED domainVars

twilio_receiver ==
    \/ \E n \in PayloadSizes : twilio_receiver_media(n)
    \/ twilio_receiver_start
    \/ twilio_receiver_stop
    \/ twilio_receiver_fault
    \/ twilio_receiver_closed

(***************************************************************************)
(* Agent Egress: sts_sender (src/f/main.py:83-93).                         *)
(***************************************************************************)
\* a last-in-first-out get, as of asyncio.LifoQueue: what C3_Fifo must exclude
queue_get_lifo(q) == [item |-> q[Len(q)], rest |-> SubSeq(q, 1, Len(q) - 1)]

\* await audio_queue.get() on a queue that is not empty: asyncio.Queue is
\* first-in-first-out
queue_get(q) == [item |-> Head(q), rest |-> Tail(q)]

\* sts_sender without "except Exception": the ConnectionClosed of a failed
\* send leaves the task as its exception; what C20_FaultsEndTasksNormally
\* must exclude
sts_sender_frame_unguarded ==
    /\ spc = "run" /\ audio_queue # <<>>
    /\ queue_get(audio_queue).item # None
    /\ audio_queue' = queue_get(audio_queue).rest
    /\ IF dgState = "open"
       THEN /\ sentToDg' = Append(sentToDg,
                                  [kind |-> "audio",
                                   bytes |-> queue_get(audio_queue).item])
            /\ UNCHANGED <<spc, senderFault>>
       ELSE /\ spc' = "raised"
            /\ senderFault' = TRUE
            /\ UNCHANGED sentToDg
    /\ UNCHANGED <<hpc, tpc, rpc, twOpen, dgState, dgInbox, sentToTwilio, nDg,
                   emitted, dgClosings, buf, nTw, fed, enq, stopSeen, startSid,
                   sentinelGot, senderCloses>>
    /\ UNCHANGED domainVars

\* chunk = await audio_queue.get(); a frame: await ws_dg.send(chunk), which
\* raises ConnectionClosed when the connection is not open
sts_sender_frame ==
    /\ spc = "run" /\ audio_queue # <<>>
    /\ queue_get(audio_queue).item # None
    /\ audio_queue' = queue_get(audio_queue).rest
    /\ IF dgState = "open"
       THEN /\ sentToDg' = Append(sentToDg,
                                  [kind |-> "audio",
                                   bytes |-> queue_get(audio_queue).item])
            /\ UNCHANGED <<spc, senderFault>>
       ELSE /\ spc' = "done"
            /\ senderFault' = TRUE
            /\ UNCHANGED sentToDg
    /\ UNCHANGED <<hpc, tpc, rpc, twOpen, dgState, dgInbox, sentToTwilio, nDg,
                   emitted,
                   dgClosings, buf, nTw, fed, enq, stopSeen, startSid,
                   sentinelGot,
                   senderCloses>>
    /\ UNCHANGED domainVars

\* the sentinel branch without the close: what C4_SentinelEndsEgress must
\* exclude
sts_sender_sentinel_no_close ==
    /\ spc = "run" /\ audio_queue # <<>>
    /\ queue_get(audio_queue).item = None
    /\ audio_queue' = queue_get(audio_queue).rest
    /\ sentinelGot' = TRUE
    /\ spc' = "closing"
    /\ UNCHANGED <<hpc, tpc, rpc, twOpen, dgState, dgClosings, dgInbox,
                   sentToDg, sentToTwilio, nDg, emitted, buf, nTw, fed, enq,
                   stopSeen, startSid,
                   senderFault, senderCloses>>
    /\ UNCHANGED domainVars

\* the sentinel: await ws_dg.close() starts the closing handshake (and does
\* nothing on a connection that is closed already)
sts_sender_sentinel ==
    /\ spc = "run" /\ audio_queue # <<>>
    /\ queue_get(audio_queue).item = None
    /\ audio_queue' = queue_get(audio_queue).rest
    /\ sentinelGot' = TRUE
    /\ senderCloses' = senderCloses + 1
    /\ dgState' = "closed"
    /\ dgClosings' = IF dgState = "open" THEN dgClosings + 1 ELSE dgClosings
    /\ spc' = "closing"
    /\ UNCHANGED <<hpc, tpc, rpc, twOpen, dgInbox, sentToDg, sentToTwilio,
                   nDg, emitted,
                   buf, nTw, fed, enq, stopSeen, startSid, senderFault>>
    /\ UNCHANGED domainVars

\* ws_dg.close() returns (the handshake is done or timed out): break
sts_sender_closed ==
    /\ spc = "closing"
    /\ spc' = "done"
    /\ UNCHANGED <<hpc, tpc, rpc>>
    /\ UNCHANGED netVars /\ UNCHANGED ingestVars /\ UNCHANGED senderVars
    /\ UNCHANGED domainVars

sts_sender ==
    \/ sts_sender_frame
    \/ sts_sender_sentinel
    \/ sts_sender_closed

(***************************************************************************)
(* Agent Ingress: sts_receiver (src/f/main.py:96-145).                     *)
(***************************************************************************)
\* _stream_sid(ws): the last segment of the WebSocket path
stream_sid == "twilio"

\* a send that puts the event ahead of what was sent before: what
\* C13_AgentOrder must exclude
sts_receiver_to_twilio_front(event) ==
    IF twOpen
    THEN /\ sentToTwilio' = <<event>> \o sentToTwilio
         /\ UNCHANGED rpc
    ELSE /\ rpc' = "done"
         /\ UNCHANGED sentToTwilio

\* await ws_twilio.send(event): raises ConnectionClosed, which ends the task,
\* when the telephony connection is not open
sts_receiver_to_twilio(event) ==
    IF twOpen
    THEN /\ sentToTwilio' = Append(sentToTwilio, event)
         /\ UNCHANGED rpc
    ELSE /\ rpc' = "done"
         /\ UNCHANGED sentToTwilio

\* a binary frame: forwarded to telephony as a media event
sts_receiver_audio ==
    /\ rpc = "run" /\ dgInbox # <<>> /\ Head(dgInbox).kind = "audio"
    /\ dgInbox' = Tail(dgInbox)
    /\ sts_receiver_to_twilio([event |-> "media", streamSid |-> stream_sid,
                               payload |-> b64encode(Head(dgInbox).bytes)])
    /\ UNCHANGED <<hpc, tpc, spc, twOpen, dgState, sentToDg, nDg, emitted,
                   dgClosings>>
    /\ UNCHANGED ingestVars /\ UNCHANGED senderVars
    /\ UNCHANGED domainVars

\* a barge-in that waits until the audio queue is empty: what
\* C12_BargeInFirst must exclude
sts_receiver_barge_in_queued ==
    /\ rpc = "run" /\ dgInbox # <<>>
    /\ Head(dgInbox).kind = "UserStartedSpeaking"
    /\ audio_queue = <<>>
    /\ dgInbox' = Tail(dgInbox)
    /\ sts_receiver_to_twilio([event |-> "clear", streamSid |-> stream_sid])
    /\ UNCHANGED <<hpc, tpc, spc, twOpen, dgState, sentToDg, nDg, emitted,
                   dgClosings>>
    /\ UNCHANGED ingestVars /\ UNCHANGED senderVars
    /\ UNCHANGED domainVars

\* UserStartedSpeaking: a clear event to telephony
sts_receiver_barge_in ==
    /\ rpc = "run" /\ dgInbox # <<>>
    /\ Head(dgInbox).kind = "UserStartedSpeaking"
    /\ dgInbox' = Tail(dgInbox)
    /\ sts_receiver_to_twilio([event |-> "clear", streamSid |-> stream_sid])
    /\ UNCHANGED <<hpc, tpc, spc, twOpen, dgState, sentToDg, nDg, emitted,
                   dgClosings>>
    /\ UNCHANGED ingestVars /\ UNCHANGED senderVars
    /\ UNCHANGED domainVars

\* the message types of the branches that only log: the lifecycle events,
\* and the errors and warnings of the agent
Lifecycle == {"Welcome", "SettingsApplied", "AgentThinking", "AgentAudioDone"}

Alerts == {"AgentError", "AgentWarning"}

\* what sts_receiver reads without doing more than logging
LoggedOnly == {"badjson", "ConversationText"} \cup Lifecycle \cup Alerts

\* an AgentError that is raised as an exception, ending the task: what
\* C23_AlertsOnlyLogged must exclude
sts_receiver_skip_raises ==
    /\ rpc = "run" /\ dgInbox # <<>>
    /\ Head(dgInbox).kind \in LoggedOnly
    /\ dgInbox' = Tail(dgInbox)
    /\ rpc' = IF Head(dgInbox).kind = "AgentError" THEN "done" ELSE rpc
    /\ UNCHANGED <<hpc, tpc, spc, twOpen, dgState, sentToDg, sentToTwilio,
                   nDg, emitted, dgClosings>>
    /\ UNCHANGED ingestVars /\ UNCHANGED senderVars
    /\ UNCHANGED domainVars

\* an AgentAudioDone that sends a clear event to telephony: what
\* C24_LoggedOnly must exclude
sts_receiver_skip_clears ==
    /\ rpc = "run" /\ dgInbox # <<>>
    /\ Head(dgInbox).kind \in LoggedOnly
    /\ dgInbox' = Tail(dgInbox)
    /\ IF Head(dgInbox).kind = "AgentAudioDone" /\ twOpen
       THEN sentToTwilio' = Append(sentToTwilio, [event |-> "clear",
                                                  streamSid |-> "twilio"])
       ELSE UNCHANGED sentToTwilio
    /\ UNCHANGED <<hpc, tpc, spc, rpc, twOpen, dgState, sentToDg,
                   nDg, emitted, dgClosings>>
    /\ UNCHANGED ingestVars /\ UNCHANGED senderVars
    /\ UNCHANGED domainVars

\* json.loads without the inner try: the JSONDecodeError ends the task; what
\* C16_BadJsonDropped must exclude
sts_receiver_skip_fatal ==
    /\ rpc = "run" /\ dgInbox # <<>>
    /\ Head(dgInbox).kind \in LoggedOnly
    /\ dgInbox' = Tail(dgInbox)
    /\ rpc' = IF Head(dgInbox).kind = "badjson" THEN "done" ELSE rpc
    /\ UNCHANGED <<hpc, tpc, spc, twOpen, dgState, sentToDg, sentToTwilio,
                   nDg, emitted, dgClosings>>
    /\ UNCHANGED ingestVars /\ UNCHANGED senderVars
    /\ UNCHANGED domainVars

\* text that json.loads rejects (continue), or a message of a type that is
\* only logged: ConversationText, the lifecycle events, AgentError and
\* AgentWarning
sts_receiver_skip ==
    /\ rpc = "run" /\ dgInbox # <<>>
    /\ Head(dgInbox).kind \in LoggedOnly
    /\ dgInbox' = Tail(dgInbox)
    /\ UNCHANGED <<hpc, tpc, spc, rpc, twOpen, dgState, sentToDg, sentToTwilio,
                   nDg, emitted, dgClosings>>
    /\ UNCHANGED ingestVars /\ UNCHANGED senderVars
    /\ UNCHANGED domainVars

(***************************************************************************)
(* The Tool-Call Bridge: _handle_function_call (src/f/main.py:152-171).    *)
(***************************************************************************)
\* JSON true, false and null are "true", "false" and "null"; not value
falsy(value) == value \in {"false", "null"}

\* a bridge that never skips: what C9_ClientSideOrAbsent must exclude
skips_client_execution_never(req) == FALSE

\* if not req.get("client_side", True): return
skips_client_execution(req) == falsy(Get(req, "client_side", "true"))

\* a response that carries a fixed id: what C7_ResponseCarriesId must exclude
function_call_response_fixed_id(req, content) ==
    [kind |-> "FunctionCallResponse",
     data |-> [id |-> "c1",
               name |-> Get(req, "name", "None"),
               content |-> content]]

\* the FunctionCallResponse for req with the content execute_function gave
function_call_response(req, content) ==
    [kind |-> "FunctionCallResponse",
     data |-> [id |-> Get(req, "id", "None"),
               name |-> Get(req, "name", "None"),
               content |-> content]]

\* a FunctionCallRequest: await _handle_function_call(msg, ws_dg).  The
\* capability runs, then ws_dg.send raises ConnectionClosed, which ends
\* sts_receiver, when the agent connection is not open
sts_receiver_function_call ==
    /\ rpc = "run" /\ dgInbox # <<>>
    /\ Head(dgInbox).kind = "FunctionCallRequest"
    /\ dgInbox' = Tail(dgInbox)
    /\ LET req == Head(dgInbox).data
       IN  /\ received' = Append(received, req)
           /\ IF skips_client_execution(req)
              THEN UNCHANGED <<rpc, sentToDg, COMPLAINTS, executed>>
              ELSE \E uuid8 \in Uuid8s :
                     LET r == execute_function(Get(req, "name", "None"),
                                               Get(req, "arguments", <<>>),
                                               COMPLAINTS, uuid8, 0)
                     IN  /\ COMPLAINTS' = r.store
                         /\ executed' = Append(executed, req)
                         /\ IF ~r.raised /\ dgState = "open"
                            THEN /\ sentToDg' = Append(sentToDg,
                                       function_call_response(req, r.content))
                                 /\ UNCHANGED rpc
                            ELSE /\ rpc' = "done"
                                 /\ UNCHANGED sentToDg
    /\ UNCHANGED <<hpc, tpc, spc, twOpen, dgState, sentToTwilio, nDg, emitted,
                   dgClosings>>
    /\ UNCHANGED ingestVars /\ UNCHANGED senderVars /\ UNCHANGED directVars

\* a loop that starts _handle_function_call as a task of its own and reads
\* on while the response is being sent: what C21_ServedInTurn must exclude
sts_receiver_function_call_send_spawned ==
    /\ rpc \in {"run", "send"} /\ dgInbox # <<>>
    /\ Head(dgInbox).kind = "FunctionCallRequest"
    /\ dgInbox' = Tail(dgInbox)
    /\ LET req == Head(dgInbox).data
       IN  /\ received' = Append(received, req)
           /\ IF skips_client_execution(req)
              THEN UNCHANGED <<rpc, sentToDg, COMPLAINTS, executed>>
              ELSE \E uuid8 \in Uuid8s :
                     LET r == execute_function(Get(req, "name", "None"),
                                               Get(req, "arguments", <<>>),
                                               COMPLAINTS, uuid8, 0)
                     IN  /\ COMPLAINTS' = r.store
                         /\ executed' = Append(executed, req)
                         /\ IF ~r.raised /\ dgState = "open"
                            THEN /\ sentToDg' = Append(sentToDg,
                                       function_call_response(req, r.content))
                                 /\ rpc' = "send"
                            ELSE /\ rpc' = "done"
                                 /\ UNCHANGED sentToDg
    /\ UNCHANGED <<hpc, tpc, spc, twOpen, dgState, sentToTwilio, nDg, emitted,
                   dgClosings>>
    /\ UNCHANGED ingestVars /\ UNCHANGED senderVars /\ UNCHANGED directVars

\* a FunctionCallRequest whose response does not leave at once: the loop is
\* inside "await _handle_function_call(msg, ws_dg)"; the capability has run
\* (it awaits nothing), the response is written to the agent connection and
\* ws_dg.send is suspended until the connection has taken it
sts_receiver_function_call_send ==
    /\ rpc = "run" /\ dgInbox # <<>>
    /\ Head(dgInbox).kind = "FunctionCallRequest"
    /\ dgInbox' = Tail(dgInbox)
    /\ LET req == Head(dgInbox).data
       IN  /\ received' = Append(received, req)
           /\ IF skips_client_execution(req)
              THEN UNCHANGED <<rpc, sentToDg, COMPLAINTS, executed>>
              ELSE \E uuid8 \in Uuid8s :
                     LET r == execute_function(Get(req, "name", "None"),
                                               Get(req, "arguments", <<>>),
                                               COMPLAINTS, uuid8, 0)
                     IN  /\ COMPLAINTS' = r.store
                         /\ executed' = Append(executed, req)
                         /\ IF ~r.raised /\ dgState = "open"
                            THEN /\ sentToDg' = Append(sentToDg,
                                       function_call_response(req, r.content))
                                 /\ rpc' = "send"
                            ELSE /\ rpc' = "done"
                                 /\ UNCHANGED sentToDg
    /\ UNCHANGED <<hpc, tpc, spc, twOpen, dgState, sentToTwilio, nDg, emitted,
                   dgClosings>>
    /\ UNCHANGED ingestVars /\ UNCHANGED senderVars /\ UNCHANGED directVars

\* ws_dg.send returns and _handle_function_call with it: the loop reads the
\* next frame; on a connection lost meanwhile send raises ConnectionClosed,
\* which ends sts_receiver
sts_receiver_function_call_sent ==
    /\ rpc = "send"
    /\ rpc' = IF dgState = "open" THEN "run" ELSE "done"
    /\ UNCHANGED <<hpc, tpc, spc>>
    /\ UNCHANGED netVars /\ UNCHANGED ingestVars /\ UNCHANGED senderVars
    /\ UNCHANGED domainVars

\* a JSON text whose value is no object: msg.get raises AttributeError, which
\* "except Exception" catches, ending the task
sts_receiver_fault ==
    /\ rpc = "run" /\ dgInbox # <<>> /\ Head(dgInbox).kind = "nonobject"
    /\ dgInbox' = Tail(dgInbox)
    /\ rpc' = "done"
    /\ UNCHANGED <<hpc, tpc, spc, twOpen, dgState, sentToDg, sentToTwilio,
                   nDg, emitted,
                   dgClosings>>
    /\ UNCHANGED ingestVars /\ UNCHANGED senderVars /\ UNCHANGED domainVars

\* the connection is closed and every frame read: the iteration ends
sts_receiver_closed ==
    /\ rpc = "run" /\ dgInbox = <<>> /\ dgState = "closed"
    /\ rpc' = "done"
    /\ UNCHANGED <<hpc, tpc, spc>>
    /\ UNCHANGED netVars /\ UNCHANGED ingestVars /\ UNCHANGED senderVars
    /\ UNCHANGED domainVars

sts_receiver ==
    \/ sts_receiver_audio
    \/ sts_receiver_barge_in
    \/ sts_receiver_skip
    \/ sts_receiver_function_call
    \/ sts_receiver_fault
    \/ sts_receiver_closed

(***************************************************************************)
(* Session: handle_twilio_connection (src/f/main.py:178-203).              *)
(***************************************************************************)
\* cfg = load_config() ahead of the try block: its exception leaves the
\* handler without the finally clause; what C30_TelephonyAlwaysClosed must
\* exclude
handler_load_config_outside_try ==
    /\ hpc = "load_config"
    /\ hpc' \in {"connect", "closed"}
    /\ UNCHANGED <<tpc, spc, rpc>>
    /\ UNCHANGED netVars /\ UNCHANGED ingestVars /\ UNCHANGED senderVars
    /\ UNCHANGED domainVars

\* cfg = load_config(): config.json may be missing or malformed
handler_load_config ==
    /\ hpc = "load_config"
    /\ hpc' \in {"connect", "finally"}
    /\ UNCHANGED <<tpc, spc, rpc>>
    /\ UNCHANGED netVars /\ UNCHANGED ingestVars /\ UNCHANGED senderVars
    /\ UNCHANGED domainVars

\* async with websockets.connect(...) as ws_dg: the connection opens or the
\* attempt raises
handler_connect ==
    /\ hpc = "connect"
    /\ \/ /\ hpc' = "send_config"
          /\ dgState' = "open"
       \/ /\ hpc' = "finally"
          /\ UNCHANGED dgState
    /\ UNCHANGED <<tpc, spc, rpc, twOpen, dgInbox, sentToDg, sentToTwilio,
                   nDg, emitted,
                   dgClosings>>
    /\ UNCHANGED ingestVars /\ UNCHANGED senderVars
    /\ UNCHANGED domainVars

\* the tasks started without the configuration having been sent: what
\* C18_ConfigFirst must exclude
handler_send_config_skipped ==
    /\ hpc = "send_config"
    /\ IF dgState = "open"
       THEN /\ hpc' = "gather"
            /\ tpc' = "run" /\ spc' = "run" /\ rpc' = "run"
            /\ UNCHANGED sentToDg
       ELSE /\ hpc' = "exit_dg"
            /\ UNCHANGED <<sentToDg, tpc, spc, rpc>>
    /\ UNCHANGED <<twOpen, dgState, dgInbox, sentToTwilio, nDg, emitted,
                   dgClosings>>
    /\ UNCHANGED ingestVars /\ UNCHANGED senderVars
    /\ UNCHANGED domainVars

\* await ws_dg.send(json.dumps(cfg)), then asyncio.gather starts the tasks
handler_send_config ==
    /\ hpc = "send_config"
    /\ IF dgState = "open"
       THEN /\ sentToDg' = Append(sentToDg,
                                  [kind |-> "config",
                                   data |-> json_dumps(load_config)])
            /\ hpc' = "gather"
            /\ tpc' = "run" /\ spc' = "run" /\ rpc' = "run"
       ELSE /\ hpc' = "exit_dg"
            /\ UNCHANGED <<sentToDg, tpc, spc, rpc>>
    /\ UNCHANGED <<twOpen, dgState, dgInbox, sentToTwilio, nDg, emitted,
                   dgClosings>>
    /\ UNCHANGED ingestVars /\ UNCHANGED senderVars
    /\ UNCHANGED domainVars

\* a wait that returns when the first task is done, as asyncio.wait with
\* FIRST_COMPLETED: what C14_ClosedMeansAllEnded must exclude
handler_gather_first ==
    /\ hpc = "gather"
    /\ tpc = "done" \/ spc = "done" \/ rpc = "done"
    /\ hpc' = "exit_dg"
    /\ UNCHANGED <<tpc, spc, rpc>>
    /\ UNCHANGED netVars /\ UNCHANGED ingestVars /\ UNCHANGED senderVars
    /\ UNCHANGED domainVars

\* asyncio.gather(...) returns when all three tasks are done
handler_gather ==
    /\ hpc = "gather"
    /\ tpc = "done" /\ spc = "done" /\ rpc = "done"
    /\ hpc' = "exit_dg"
    /\ UNCHANGED <<tpc, spc, rpc>>
    /\ UNCHANGED netVars /\ UNCHANGED ingestVars /\ UNCHANGED senderVars
    /\ UNCHANGED domainVars

\* leaving "async with": the agent connection is closed if it is still open
handler_exit_dg ==
    /\ hpc = "exit_dg"
    /\ dgState' = "closed"
    /\ dgClosings' = IF dgState = "open" THEN dgClosings + 1 ELSE dgClosings
    /\ hpc' = "finally"
    /\ UNCHANGED <<tpc, spc, rpc, twOpen, dgInbox, sentToDg, sentToTwilio,
                   nDg, emitted>>
    /\ UNCHANGED ingestVars /\ UNCHANGED senderVars
    /\ UNCHANGED domainVars

\* finally: await ws_twilio.close()
handler_finally ==
    /\ hpc = "finally"
    /\ twOpen' = FALSE
    /\ hpc' = "closed"
    /\ UNCHANGED <<tpc, spc, rpc, dgState, dgInbox, sentToDg, sentToTwilio,
                   nDg, emitted,
                   dgClosings>>
    /\ UNCHANGED ingestVars /\ UNCHANGED senderVars
    /\ UNCHANGED domainVars

handle_twilio_connection ==
    \/ handler_load_config
    \/ handler_connect
    \/ handler_send_config
    \/ handler_gather
    \/ handler_exit_dg
    \/ handler_finally

(***************************************************************************)
(* The environment: the two remote ends.                                   *)
(***************************************************************************)
\* the frames the agent may send besides tool calls: audio (frame k carries
\* the byte k), a barge-in, text that is not JSON, a transcript, a JSON
\* value that is no object
AgentFrames ==
    {[kind |-> "audio", bytes |-> <<nDg>>],
     [kind |-> "UserStartedSpeaking", data |-> <<>>],
     [kind |-> "badjson", data |-> <<>>],
     [kind |-> "ConversationText", data |-> <<>>],
     [kind |-> "nonobject", data |-> <<>>]}

\* the tool call of the spec's scenario
VerifyRequest ==
    [kind |-> "FunctionCallRequest",
     data |-> [name |-> "verify_tenant", id |-> "c1",
               arguments |-> [unit_number |-> "101"]]]

\* the agent emits a frame
agent_emit(frame, limit) ==
    /\ dgState = "open" /\ nDg < limit
    /\ dgInbox' = Append(dgInbox, frame)
    /\ nDg' = nDg + 1
    /\ emitted' = Append(emitted, frame)
    /\ UNCHANGED <<hpc, tpc, spc, rpc, twOpen, dgState, sentToDg, sentToTwilio,
                   dgClosings>>
    /\ UNCHANGED ingestVars /\ UNCHANGED senderVars
    /\ UNCHANGED domainVars

agent_frame == \E frame \in AgentFrames : agent_emit(frame, MaxDgMsgs)

agent_verify_request == agent_emit(VerifyRequest, MaxDgMsgs)

\* the agent closes its connection, or the connection breaks
agent_close ==
    /\ dgState = "open"
    /\ dgState' = "closed"
    /\ dgClosings' = dgClosings + 1
    /\ UNCHANGED <<hpc, tpc, spc, rpc, twOpen, dgInbox, sentToDg, sentToTwilio,
                   nDg, emitted>>
    /\ UNCHANGED ingestVars /\ UNCHANGED senderVars
    /\ UNCHANGED domainVars

\* telephony closes its connection (the caller hangs up)
twilio_close ==
    /\ twOpen /\ hpc # "closed"
    /\ twOpen' = FALSE
    /\ UNCHANGED <<hpc, tpc, spc, rpc, dgState, dgInbox, sentToDg, sentToTwilio,
                   nDg, emitted, dgClosings>>
    /\ UNCHANGED ingestVars /\ UNCHANGED senderVars
    /\ UNCHANGED domainVars

(***************************************************************************)
(* Several calls side by side.  websockets.serve runs                      *)
(* handle_twilio_connection once for each telephony connection; calls[s]   *)
(* is the state of the run for call s: where the handler is, its           *)
(* twilio_receiver and sts_sender, the asyncio.Queue it created (its place *)
(* in queues), and the history of its audio.                               *)
(***************************************************************************)
Sessions == 1..MaxSessions

NoCall ==
    [hpc |-> "none", tpc |-> "idle", spc |-> "idle", audio_queue |-> 0,
     dgOpen |-> FALSE, buf |-> <<>>, nTw |-> 0, fed |-> <<>>, enq |-> <<>>,
     sent |-> <<>>, sentinelGot |-> FALSE]

\* what the calls leave alone: the single session of the other
\* specifications, the domain state and the process
relayVars ==
    <<hpc, tpc, spc, rpc, netVars, ingestVars, senderVars, COMPLAINTS,
      received, executed, lastCall, lastResult, nCalls, processVars,
      legacyVars>>

\* one queue of the module for all handlers: what C22_OwnQueue must exclude
asyncio_Queue_shared(qs) ==
    [queues |-> IF qs = <<>> THEN <<<<>>>> ELSE qs, id |-> 1]

\* asyncio.Queue(): a new, empty queue
asyncio_Queue(qs) == [queues |-> Append(qs, <<>>), id |-> Len(qs) + 1]

\* handle_twilio_connection for call s up to asyncio.gather: the queue is
\* created, then the configuration is loaded, the agent connection opened
\* and the configuration sent, and the tasks start; or one of these steps
\* raises and the handler ends
call_accept(s) ==
    /\ calls[s].hpc = "none"
    /\ LET q == asyncio_Queue(queues)
       IN  /\ queues' = q.queues
           /\ \/ calls' = [calls EXCEPT ![s] =
                             [@ EXCEPT !.hpc = "gather", !.audio_queue = q.id,
                                       !.dgOpen = TRUE,
                                       !.tpc = "run", !.spc = "run"]]
              \/ calls' = [calls EXCEPT ![s] =
                             [@ EXCEPT !.hpc = "closed", !.audio_queue = q.id]]
    /\ UNCHANGED relayVars

\* the audio of call s: byte k of its telephony stream is (100 (s - 1) + k)
\* % 256, so that no frame of one call equals a frame of another
CallBytes(s, from, n) == Bytes(100 * (s - 1) + from, n)

\* twilio_receiver of call s reads a media event of n bytes
call_twilio_receiver_media(s, n) ==
    /\ calls[s].tpc = "run" /\ calls[s].nTw < MaxCallMsgs
    /\ LET data == b64decode(b64encode(CallBytes(s, Len(calls[s].fed), n)))
           c == chunk(calls[s].buf \o data, <<>>)
       IN  /\ queues' = [queues EXCEPT ![calls[s].audio_queue] = @ \o c.frames]
           /\ calls' = [calls EXCEPT ![s] =
                          [@ EXCEPT !.buf = c.rest, !.nTw = @ + 1,
                                    !.fed = @ \o data, !.enq = @ \o c.frames]]
    /\ UNCHANGED relayVars

\* twilio_receiver of call s ends (stop event, closed connection or fault):
\* finally: await audio_queue.put(None)
call_twilio_receiver_finally(s) ==
    /\ calls[s].tpc = "run"
    /\ queues' = [queues EXCEPT ![calls[s].audio_queue] = Append(@, None)]
    /\ calls' = [calls EXCEPT ![s] = [@ EXCEPT !.tpc = "done"]]
    /\ UNCHANGED relayVars

\* sts_sender of call s takes a frame from its queue and sends it on the
\* call's agent connection
call_sts_sender_frame(s) ==
    /\ calls[s].spc = "run" /\ queues[calls[s].audio_queue] # <<>>
    /\ LET got == queue_get(queues[calls[s].audio_queue])
       IN  /\ got.item # None
           /\ queues' = [queues EXCEPT ![calls[s].audio_queue] = got.rest]
           /\ calls' = [calls EXCEPT ![s] =
                          [@ EXCEPT !.sent = Append(@, got.item)]]
    /\ UNCHANGED relayVars

\* sts_sender of call s takes the sentinel: it closes the call's agent
\* connection and ends
call_sts_sender_sentinel(s) ==
    /\ calls[s].spc = "run" /\ queues[calls[s].audio_queue] # <<>>
    /\ LET got == queue_get(queues[calls[s].audio_queue])
       IN  /\ got.item = None
           /\ queues' = [queues EXCEPT ![calls[s].audio_queue] = got.rest]
           /\ calls' = [calls EXCEPT ![s] =
                          [@ EXCEPT !.sentinelGot = TRUE, !.dgOpen = FALSE,
                                    !.spc = "done"]]
    /\ UNCHANGED relayVars

\* asyncio.gather of call s returns (sts_receiver ends on the closed agent
\* connection), the handler closes the telephony connection and ends
call_gather(s) ==
    /\ calls[s].hpc = "gather"
    /\ calls[s].tpc = "done" /\ calls[s].spc = "done"
    /\ calls' = [calls EXCEPT ![s] = [@ EXCEPT !.hpc = "closed"]]
    /\ UNCHANGED queues
    /\ UNCHANGED relayVars

\* the legacy relay before a telephony connection is accepted
NoLegacy ==
    [hpc |-> "none", tpc |-> "idle", spc |-> "idle", rpc |-> "idle",
     twOpen |-> FALSE, sts |-> "none", stsInbox |-> <<>>,
     inbuffer |-> <<>>, audio_queue |-> <<>>, streamsid_queue |-> <<>>,
     streamsid |-> "None", configSent |-> FALSE, sent |-> <<>>,
     toTwilio |-> <<>>, nTw |-> 0, nSts |-> 0, appended |-> <<>>,
     stopSeen |-> FALSE]

\* the value of the agent API secret when the environment sets it
ApiKey == "dg-secret"

Init ==
    /\ hpc = "load_config"
    /\ tpc = "idle" /\ spc = "idle" /\ rpc = "idle"
    /\ twOpen = TRUE
    /\ dgState = "none"
    /\ dgInbox = <<>>
    /\ buf = <<>>
    /\ audio_queue = <<>>
    /\ sentToDg = <<>>
    /\ sentToTwilio = <<>>
    /\ nTw = 0 /\ nDg = 0
    /\ emitted = <<>>
    /\ fed = <<>> /\ enq = <<>>
    /\ stopSeen = FALSE /\ sentinelGot = FALSE /\ senderFault = FALSE
    /\ startSid = "None"
    /\ senderCloses = 0 /\ dgClosings = 0
    /\ COMPLAINTS = <<>>
    /\ received = <<>> /\ executed = <<>>
    /\ lastCall = <<>> /\ lastResult = <<>>
    /\ nCalls = 0
    /\ DEEPGRAM_API_KEY = ApiKey /\ mainpc = "serve"
    /\ calls = [s \in Sessions |-> NoCall] /\ queues = <<>>
    /\ legacy = NoLegacy /\ appendedTracks = <<>> /\ filed = <<>>
    /\ knowledge_base = <<>> /\ chroma = <<>>

(***************************************************************************)
(* Spec: one session, the audio relay in both directions and a tool call.  *)
(***************************************************************************)
Next ==
    \/ twilio_receiver
    \/ sts_sender
    \/ sts_receiver
    \/ handle_twilio_connection
    \/ agent_frame
    \/ agent_verify_request
    \/ agent_close
    \/ twilio_close

Spec == Init /\ [][Next]_vars

\* The event loop runs every task that can run; what the two remote ends do,
\* and when, is not the program's to decide.
Fairness ==
    /\ WF_vars(twilio_receiver_closed)
    /\ WF_vars(sts_sender)
    /\ WF_vars(sts_receiver)
    /\ WF_vars(handle_twilio_connection)

FairSpec == Spec /\ Fairness

(***************************************************************************)
(* BridgeSpec: one session in which the agent sends tool calls.            *)
(***************************************************************************)
\* the agent sends a FunctionCallRequest
agent_request ==
    \E req \in Requests \cup FaultRequests :
        agent_emit([kind |-> "FunctionCallRequest", data |-> req], MaxRequests)

BridgeNext ==
    \/ twilio_receiver_stop
    \/ twilio_receiver_closed
    \/ sts_sender_sentinel
    \/ sts_sender_closed
    \/ sts_receiver_function_call
    \/ sts_receiver_closed
    \/ handle_twilio_connection
    \/ agent_request
    \/ agent_close
    \/ twilio_close

BridgeSpec == Init /\ [][BridgeNext]_vars

(***************************************************************************)
(* IngressSpec: one session in which the agent emits a burst of frames     *)
(* (audio, barge-in, text, a tool call) while telephony audio is queued    *)
(* and forwarded.                                                          *)
(***************************************************************************)
\* audio, a barge-in, text that is not JSON
BurstFrames ==
    {f \in AgentFrames :
        f.kind \in {"audio", "UserStartedSpeaking", "badjson"}}

agent_burst == \E frame \in BurstFrames : agent_emit(frame, MaxIngressFrames)

agent_burst_request == agent_emit(VerifyRequest, MaxIngressFrames)

\* the first media event of the call, with the largest payload
twilio_receiver_first_media == nTw = 0 /\ twilio_receiver_media(MaxPayload)

IngressNext ==
    \/ twilio_receiver_first_media
    \/ twilio_receiver_closed
    \/ sts_sender
    \/ sts_receiver_audio
    \/ sts_receiver_barge_in
    \/ sts_receiver_skip
    \/ sts_receiver_function_call
    \/ sts_receiver_closed
    \/ handle_twilio_connection
    \/ agent_burst
    \/ agent_burst_request
    \/ agent_close
    \/ twilio_close

IngressSpec == Init /\ [][IngressNext]_vars

(***************************************************************************)
(* StartupSpec: the process from the import of src/f/main.py to its first  *)
(* call.                                                                   *)
(*     DEEPGRAM_API_KEY = os.environ.get("DEEPGRAM_API_KEY")               *)
(*     if not DEEPGRAM_API_KEY: raise ValueError(...)                      *)
(***************************************************************************)
\* os.environ.get gives None for a variable that is not set; "not" is true
\* of None and of the empty string
Missing(key) == key \in {"None", ""}

\* a module that reads the secret and does not test it: what
\* C27_NoSecretNoSession must exclude
module_import_unchecked ==
    /\ mainpc = "import"
    /\ mainpc' = "main"
    /\ UNCHANGED <<hpc, tpc, spc, rpc, COMPLAINTS, received, executed,
                   lastCall, lastResult, nCalls, DEEPGRAM_API_KEY>>
    /\ UNCHANGED netVars /\ UNCHANGED ingestVars /\ UNCHANGED senderVars
    /\ UNCHANGED sessionsVars

\* the module body runs: the ValueError of the missing secret ends the
\* process before main is defined
module_import ==
    /\ mainpc = "import"
    /\ mainpc' = IF Missing(DEEPGRAM_API_KEY) THEN "raised" ELSE "main"
    /\ UNCHANGED <<hpc, tpc, spc, rpc, COMPLAINTS, received, executed,
                   lastCall, lastResult, nCalls, DEEPGRAM_API_KEY>>
    /\ UNCHANGED netVars /\ UNCHANGED ingestVars /\ UNCHANGED senderVars
    /\ UNCHANGED sessionsVars

\* main(): await build_index(), which may raise, then websockets.serve
main_build_index ==
    /\ mainpc = "main"
    /\ mainpc' \in {"serve", "raised"}
    /\ UNCHANGED <<hpc, tpc, spc, rpc, COMPLAINTS, received, executed,
                   lastCall, lastResult, nCalls, DEEPGRAM_API_KEY>>
    /\ UNCHANGED netVars /\ UNCHANGED ingestVars /\ UNCHANGED senderVars
    /\ UNCHANGED sessionsVars

\* the server accepts a telephony connection and hands it to
\* handle_twilio_connection
serve_accept ==
    /\ mainpc = "serve" /\ hpc = "none"
    /\ hpc' = "load_config"
    /\ twOpen' = TRUE
    /\ UNCHANGED <<tpc, spc, rpc, dgState, dgInbox, sentToDg, sentToTwilio,
                   nDg, emitted, dgClosings>>
    /\ UNCHANGED ingestVars /\ UNCHANGED senderVars
    /\ UNCHANGED domainVars

\* the process is started, with the secret set, set to nothing, or not set
StartupInit ==
    /\ hpc = "none"
    /\ tpc = "idle" /\ spc = "idle" /\ rpc = "idle"
    /\ twOpen = FALSE
    /\ dgState = "none"
    /\ dgInbox = <<>>
    /\ buf = <<>>
    /\ audio_queue = <<>>
    /\ sentToDg = <<>>
    /\ sentToTwilio = <<>>
    /\ nTw = 0 /\ nDg = 0
    /\ emitted = <<>>
    /\ fed = <<>> /\ enq = <<>>
    /\ stopSeen = FALSE /\ sentinelGot = FALSE /\ senderFault = FALSE
    /\ startSid = "None"
    /\ senderCloses = 0 /\ dgClosings = 0
    /\ COMPLAINTS = <<>>
    /\ received = <<>> /\ executed = <<>>
    /\ lastCall = <<>> /\ lastResult = <<>>
    /\ nCalls = 0
    /\ DEEPGRAM_API_KEY \in {ApiKey, "", "None"} /\ mainpc = "import"
    /\ calls = [s \in Sessions |-> NoCall] /\ queues = <<>>
    /\ legacy = NoLegacy /\ appendedTracks = <<>> /\ filed = <<>>
    /\ knowledge_base = <<>> /\ chroma = <<>>

StartupNext ==
    \/ module_import
    \/ main_build_index
    \/ serve_accept
    \/ handle_twilio_connection
    \/ twilio_receiver_start
    \/ twilio_receiver_stop
    \/ twilio_receiver_fault
    \/ twilio_receiver_closed
    \/ sts_sender_sentinel
    \/ sts_sender_closed
    \/ sts_receiver_closed
    \/ agent_close
    \/ twilio_close

StartupSpec == StartupInit /\ [][StartupNext]_vars

(***************************************************************************)
(* ControlSpec: one session in which the agent emits the messages that are *)
(* only logged, and audio, while telephony audio is queued and forwarded.  *)
(***************************************************************************)
\* a transcript as the agent sends it (role "user" or "assistant") and one
\* without its fields, the lifecycle events, an error, a warning, and audio
ControlFrames ==
    {[kind |-> k, data |-> <<>>] :
        k \in {"ConversationText"} \cup Lifecycle \cup Alerts}
    \cup {[kind |-> "ConversationText",
           data |-> [role |-> "user", content |-> "my heating is off"]],
          [kind |-> "audio", bytes |-> <<nDg>>]}

agent_control ==
    \E frame \in ControlFrames : agent_emit(frame, MaxControlFrames)

ControlNext ==
    \/ twilio_receiver_first_media
    \/ twilio_receiver_closed
    \/ sts_sender
    \/ sts_receiver_audio
    \/ sts_receiver_skip
    \/ sts_receiver_closed
    \/ handle_twilio_connection
    \/ agent_control
    \/ agent_close
    \/ twilio_close

ControlSpec == Init /\ [][ControlNext]_vars

(***************************************************************************)
(* ToolSpec: one session in which the agent asks for tenant verifications  *)
(* and the sending of a response takes time.                               *)
(***************************************************************************)
\* verify_tenant for a registered unit, for the same unit with blanks around
\* it, and for a unit that is not registered, each under its own id
VerifyRequests ==
    {VerifyRequest.data,
     [name |-> "verify_tenant", id |-> "c2",
      arguments |-> [unit_number |-> "999"]],
     [name |-> "verify_tenant", id |-> "c3",
      arguments |-> [unit_number |-> " 101 "]]}

agent_verify ==
    \E req \in VerifyRequests :
        agent_emit([kind |-> "FunctionCallRequest", data |-> req], MaxRequests)

ToolNext ==
    \/ twilio_receiver_stop
    \/ twilio_receiver_closed
    \/ sts_sender_sentinel
    \/ sts_sender_closed
    \/ sts_receiver_function_call_send
    \/ sts_receiver_function_call_sent
    \/ sts_receiver_closed
    \/ handle_twilio_connection
    \/ agent_verify
    \/ agent_close
    \/ twilio_close

ToolSpec == Init /\ [][ToolNext]_vars

(***************************************************************************)
(* FileSpec: file_complaint called through execute_function for every      *)
(* category of the category table.                                         *)
(***************************************************************************)
file_call ==
    /\ nCalls < MaxCalls
    /\ \E category \in DOMAIN COMPLAINT_CONFIG, uuid8 \in Uuid8s :
         LET r == execute_function("file_complaint", FileArgs(category),
                                   COMPLAINTS, uuid8, 0)
         IN  /\ lastCall' = [name |-> "file_complaint",
                             arguments |-> FileArgs(category),
                             store |-> COMPLAINTS]
             /\ lastResult' = r
             /\ COMPLAINTS' = r.store
    /\ nCalls' = nCalls + 1
    /\ UNCHANGED <<hpc, tpc, spc, rpc, received, executed>>
    /\ UNCHANGED netVars /\ UNCHANGED ingestVars /\ UNCHANGED senderVars
    /\ UNCHANGED processVars /\ UNCHANGED sessionsVars

FileNext == file_call

FileSpec == Init /\ [][FileNext]_vars

(***************************************************************************)
(* src/f/rag_engine.py: search_knowledge_base.  A chunk of the index is    *)
(* [id, text, source, dist], dist being the cosine distance of its         *)
(* embedding to the query's, in hundredths.                                *)
(***************************************************************************)
TOP_K == 3

\* the distance 0.6 of "if dist < 0.6", in hundredths
RELEVANCE_DISTANCE == 60

Chunk(id, source, dist) ==
    [id |-> id, text |-> <<"text of chunk", id>>, source |-> source,
     dist |-> dist]

\* the chunks an index may hold: two of one document, a chunk exactly at
\* the distance 0.60, two chunks at the same distance
KnowledgeChunks ==
    {Chunk(1, "Emergency Procedures", 35),
     Chunk(2, "Emergency Procedures", 59),
     Chunk(3, "Maintenance Policy", 60),
     Chunk(4, "Maintenance Policy", 45),
     Chunk(5, "Tenant Rights And Escalation", 72),
     Chunk(6, "Tenant Rights And Escalation", 59)}

\* collection.query(query_embeddings, n_results): the n chunks nearest to
\* the query, nearest first; among chunks at the same distance any may come
\* first
query(collection, n) ==
    LET Nearest == {S \in SUBSET collection :
                      /\ Cardinality(S) = n
                      /\ \A a \in S, b \in collection \ S : a.dist <= b.dist}
    IN  UNION {{seq \in [1..n -> S] :
                  /\ \A i, j \in 1..n : i # j => seq[i] # seq[j]
                  /\ \A i, j \in 1..n : i < j => seq[i].dist <= seq[j].dist} :
               S \in Nearest}

\* the filter with "<=" for "<": what C28_SearchKnowledgeBase must exclude
search_knowledge_base_le(collection, results) ==
    LET Relevant(c) == c.dist <= RELEVANCE_DISTANCE
        relevant == SelectSeq(results, Relevant)
    IN  IF Cardinality(collection) = 0
        THEN [success |-> FALSE, answer |-> "not built yet", sources |-> {}]
        ELSE IF results = <<>>
        THEN [success |-> FALSE, answer |-> "no information", sources |-> {}]
        ELSE IF relevant = <<>>
        THEN [success |-> FALSE, answer |-> "no policy found", sources |-> {}]
        ELSE [success |-> TRUE,
              answer |-> [i \in 1..Len(relevant) |->
                            <<"[From:", relevant[i].source, relevant[i].text>>],
              sources |-> {relevant[i].source : i \in 1..Len(relevant)}]

\* search_knowledge_base, given what collection.query returned for the
\* query; sources is list({...}), a list in no defined order, given as the
\* set; the answer is the tuple of the parts that "\n\n---\n\n" joins
search_knowledge_base(collection, results) ==
    LET Relevant(c) == c.dist < RELEVANCE_DISTANCE
        relevant == SelectSeq(results, Relevant)
    IN  IF Cardinality(collection) = 0
        THEN [success |-> FALSE, answer |-> "not built yet", sources |-> {}]
        ELSE IF results = <<>>
        THEN [success |-> FALSE, answer |-> "no information", sources |-> {}]
        ELSE IF relevant = <<>>
        THEN [success |-> FALSE, answer |-> "no policy found", sources |-> {}]
        ELSE [success |-> TRUE,
              answer |-> [i \in 1..Len(relevant) |->
                            <<"[From:", relevant[i].source, relevant[i].text>>],
              sources |-> {relevant[i].source : i \in 1..Len(relevant)}]

Min(a, b) == IF a <= b THEN a ELSE b

(***************************************************************************)
(* RagSpec: search_knowledge_base called on every index over               *)
(* KnowledgeChunks, with top_k from 1 to TOP_K.                            *)
(***************************************************************************)
search_call ==
    /\ nCalls < MaxCalls
    /\ \E collection \in SUBSET KnowledgeChunks, top_k \in 1..TOP_K :
         \E results \in IF collection = {} THEN {<<>>}
                        ELSE query(collection,
                                   Min(top_k, Cardinality(collection))) :
            /\ lastCall' = [name |-> "search_knowledge_base",
                            arguments |-> [top_k |-> top_k],
                            collection |-> collection,
                            results |-> results]
            /\ lastResult' = [raised |-> FALSE,
                              result |-> search_knowledge_base(collection,
                                                               results)]
    /\ nCalls' = nCalls + 1
    /\ UNCHANGED <<hpc, tpc, spc, rpc, COMPLAINTS, received, executed>>
    /\ UNCHANGED netVars /\ UNCHANGED ingestVars /\ UNCHANGED senderVars
    /\ UNCHANGED processVars /\ UNCHANGED sessionsVars

RagNext == search_call

RagSpec == Init /\ [][RagNext]_vars

(***************************************************************************)
(* The legacy relay (src/main.py).  twilio_handler opens the agent         *)
(* connection, sends the configuration and waits with asyncio.wait for     *)
(* sts_sender, sts_receiver and twilio_receiver; there is no sentinel: the *)
(* queue carries audio only.                                               *)
(***************************************************************************)
BUFFER_SIZE == 20 * 160

\* what the legacy relay leaves alone
legacyRest ==
    <<hpc, tpc, spc, rpc, netVars, ingestVars, senderVars, COMPLAINTS,
      received, executed, lastCall, lastResult, nCalls, processVars,
      calls, queues, appendedTracks, filed, indexVars>>

\* websockets.serve calls twilio_handler for a telephony connection:
\*     audio_queue = asyncio.Queue(); streamsid_queue = asyncio.Queue()
legacy_accept ==
    /\ legacy.hpc = "none"
    /\ legacy' = [legacy EXCEPT !.hpc = "connect", !.twOpen = TRUE]
    /\ UNCHANGED legacyRest

\* async with sts_connect() as sts_ws: ValueError without the API key, an
\* exception when the agent service cannot be reached
legacy_sts_connect ==
    /\ legacy.hpc = "connect"
    /\ \/ /\ ~Missing(DEEPGRAM_API_KEY)
          /\ legacy' = [legacy EXCEPT !.hpc = "send_config", !.sts = "open"]
       \/ legacy' = [legacy EXCEPT !.hpc = "raised"]
    /\ UNCHANGED legacyRest

\* config_message = load_config(); await sts_ws.send(...); then the three
\* tasks are created and the handler waits for all of them
legacy_send_config ==
    /\ legacy.hpc = "send_config"
    /\ \/ /\ legacy.sts = "open"
          /\ legacy' = [legacy EXCEPT !.hpc = "wait", !.configSent = TRUE,
                                      !.tpc = "run", !.spc = "run",
                                      !.rpc = "wait_sid"]
       \/ legacy' = [legacy EXCEPT !.hpc = "raised", !.sts = "closed"]
    /\ UNCHANGED legacyRest

\* asyncio.wait returns when all three tasks are done:
\*     await twilio_ws.close()
\* and the end of the async with block closes the agent connection
legacy_wait ==
    /\ legacy.hpc = "wait"
    /\ legacy.tpc = "done" /\ legacy.spc = "done" /\ legacy.rpc = "done"
    /\ legacy' = [legacy EXCEPT !.hpc = "closed", !.twOpen = FALSE,
                                !.sts = "closed"]
    /\ UNCHANGED legacyRest

\* the messages telephony may send next; the start event of the telephony
\* service names its stream "streamSid", the legacy relay reads "streamsid"
LegacyMsgs ==
    {[event |-> "connected"],
     [event |-> "start", start |-> [tracks |-> <<"inbound">>],
      streamsid |-> StartStreamSid],
     [event |-> "start", start |-> [tracks |-> <<"inbound">>],
      streamSid |-> StartStreamSid],
     [event |-> "media",
      media |-> [track |-> "inbound",
                 payload |-> b64encode(Bytes(legacy.nTw, BUFFER_SIZE))]],
     [event |-> "media",
      media |-> [track |-> "outbound",
                 payload |-> b64encode(Bytes(legacy.nTw, SmallPayload))]],
     [event |-> "stop"],
     [raw |-> "{"]}

\* while len(inbuffer) >= BUFFER_SIZE: put_nowait(inbuffer[:BUFFER_SIZE])
RECURSIVE legacy_chunk(_, _)
legacy_chunk(b, out) ==
    IF Len(b) >= BUFFER_SIZE
    THEN legacy_chunk(SubSeq(b, BUFFER_SIZE + 1, Len(b)),
                      Append(out, SubSeq(b, 1, BUFFER_SIZE)))
    ELSE [frames |-> out, rest |-> b]

\* if media["track"] == "inbound": inbuffer.extend(chunk)
legacy_extends(media) == media.track = "inbound"

\* one iteration of the loop of the legacy twilio_receiver on message msg:
\* "break" on stop and on every exception, "continue" on connected, else
\* the chunking loop
legacy_twilio_receiver_read(msg) ==
    /\ legacy.tpc = "run" /\ legacy.twOpen /\ legacy.nTw < MaxLegacyMsgs
    /\ LET read == [legacy EXCEPT !.nTw = @ + 1]
           break == [read EXCEPT !.tpc = "done"]
           put(l) == LET c == legacy_chunk(l.inbuffer, <<>>)
                     IN  [l EXCEPT !.inbuffer = c.rest,
                                   !.audio_queue = @ \o c.frames]
       IN  legacy' =
             IF "event" \notin DOMAIN msg THEN break
             ELSE IF msg.event = "start"
             THEN IF "start" \in DOMAIN msg /\ "streamsid" \in DOMAIN msg
                  THEN put([read EXCEPT !.streamsid_queue =
                                           Append(@, msg.streamsid)])
                  ELSE break
             ELSE IF msg.event = "connected" THEN read
             ELSE IF msg.event = "media"
             THEN IF /\ "media" \in DOMAIN msg
                     /\ "payload" \in DOMAIN msg.media
                     /\ "track" \in DOMAIN msg.media
                  THEN IF legacy_extends(msg.media)
                       THEN put([read EXCEPT
                                   !.inbuffer = @ \o b64decode(msg.media.payload),
                                   !.appended = Append(@, msg.media.track)])
                       ELSE put(read)
                  ELSE break
             ELSE IF msg.event = "stop"
             THEN [break EXCEPT !.stopSeen = TRUE]
             ELSE put(read)
    /\ UNCHANGED legacyRest

\* the telephony connection is closed: the iteration over twilio_ws ends
legacy_twilio_receiver_closed ==
    /\ legacy.tpc = "run" /\ ~legacy.twOpen
    /\ legacy' = [legacy EXCEPT !.tpc = "done"]
    /\ UNCHANGED legacyRest

\* sts_sender: chunk = await audio_queue.get(); await sts_ws.send(chunk).
\* The get waits while the queue is empty; the send raises on a closed
\* agent connection and the task ends by the exception
legacy_sts_sender ==
    /\ legacy.spc = "run" /\ legacy.audio_queue # <<>>
    /\ legacy' =
         IF legacy.sts = "open"
         THEN [legacy EXCEPT !.audio_queue = Tail(@),
                             !.sent = Append(@, Head(legacy.audio_queue))]
         ELSE [legacy EXCEPT !.audio_queue = Tail(@), !.spc = "done"]
    /\ UNCHANGED legacyRest

\* sts_receiver: streamsid = await streamsid_queue.get()
legacy_sts_receiver_streamsid ==
    /\ legacy.rpc = "wait_sid" /\ legacy.streamsid_queue # <<>>
    /\ legacy' = [legacy EXCEPT !.rpc = "run",
                                !.streamsid = Head(legacy.streamsid_queue),
                                !.streamsid_queue = Tail(@)]
    /\ UNCHANGED legacyRest

\* what the legacy sts_receiver sends to telephony for a frame of the agent:
\* a media event for audio, a barge-in event for UserStartedSpeaking,
\* nothing for any other text message
legacy_event(frame) ==
    IF frame.kind = "audio"
    THEN <<[event |-> "media", streamsid |-> legacy.streamsid,
            payload |-> b64encode(frame.bytes)]>>
    ELSE IF frame.kind = "UserStartedSpeaking"
    THEN <<[event |-> "barge-in", streamsid |-> legacy.streamsid]>>
    ELSE <<>>

\* sts_receiver reads a frame of the agent; json.loads of a malformed text
\* message and a send on the closed telephony connection raise and end
\* the task
legacy_sts_receiver_frame ==
    /\ legacy.rpc = "run" /\ legacy.stsInbox # <<>>
    /\ LET frame == Head(legacy.stsInbox)
           out == legacy_event(frame)
           read == [legacy EXCEPT !.stsInbox = Tail(@)]
       IN  legacy' =
             IF frame.kind = "badjson" \/ (out # <<>> /\ ~legacy.twOpen)
             THEN [read EXCEPT !.rpc = "done"]
             ELSE [read EXCEPT !.toTwilio = @ \o out]
    /\ UNCHANGED legacyRest

\* the agent connection is closed and every frame it delivered is read: the
\* iteration over sts_ws ends
legacy_sts_receiver_closed ==
    /\ legacy.rpc = "run" /\ legacy.stsInbox = <<>>
    /\ legacy.sts = "closed"
    /\ legacy' = [legacy EXCEPT !.rpc = "done"]
    /\ UNCHANGED legacyRest

\* the frames the agent service may emit to the legacy relay
LegacyFrames ==
    {[kind |-> "audio", bytes |-> <<legacy.nSts>>],
     [kind |-> "UserStartedSpeaking"],
     [kind |-> "Welcome"],
     [kind |-> "badjson"]}

\* the agent service emits a frame
legacy_agent_frame(frame) ==
    /\ legacy.sts = "open" /\ legacy.hpc = "wait"
    /\ legacy.nSts < MaxLegacyFrames
    /\ legacy' = [legacy EXCEPT !.stsInbox = Append(@, frame),
                                !.nSts = @ + 1]
    /\ UNCHANGED legacyRest

\* the agent service closes its connection
legacy_agent_close ==
    /\ legacy.sts = "open" /\ legacy.hpc = "wait"
    /\ legacy' = [legacy EXCEPT !.sts = "closed"]
    /\ UNCHANGED legacyRest

\* telephony closes its connection
legacy_twilio_close ==
    /\ legacy.twOpen /\ legacy.hpc \in {"connect", "send_config", "wait"}
    /\ legacy' = [legacy EXCEPT !.twOpen = FALSE]
    /\ UNCHANGED legacyRest

LegacyNext ==
    \/ legacy_accept
    \/ legacy_sts_connect
    \/ legacy_send_config
    \/ legacy_wait
    \/ \E msg \in LegacyMsgs : legacy_twilio_receiver_read(msg)
    \/ legacy_twilio_receiver_closed
    \/ legacy_sts_sender
    \/ legacy_sts_receiver_streamsid
    \/ legacy_sts_receiver_frame
    \/ legacy_sts_receiver_closed
    \/ \E frame \in LegacyFrames : legacy_agent_frame(frame)
    \/ legacy_agent_close
    \/ legacy_twilio_close

LegacySpec == Init /\ [][LegacyNext]_vars

(***************************************************************************)
(* TrackSpec: a session whose media events name their track.               *)
(***************************************************************************)
TrackNext ==
    \/ \E n \in {SmallPayload, BYTES_PER_CHUNK}, track \in Tracks :
          twilio_receiver_media_track(n, track)
    \/ twilio_receiver_stop
    \/ twilio_receiver_closed
    \/ sts_sender
    \/ sts_receiver_closed
    \/ handle_twilio_connection
    \/ agent_close
    \/ twilio_close

TrackSpec == Init /\ [][TrackNext]_vars

(***************************************************************************)
(* StoreSpec: the ticket store under file_complaint,                       *)
(* check_complaint_status and list_tenant_complaints, called in any order  *)
(* by any session.  uuid.uuid4() is random: any two calls may draw the     *)
(* same first eight digits.                                                *)
(***************************************************************************)
StoreUnits == {"101", "202"}

\* a ticket id as a caller may give it: as returned, in lower case, and in
\* lower case with surrounding whitespace
IdVariants(ticket_id) ==
    {ticket_id, lower(ticket_id), " " \o lower(ticket_id) \o " "}

\* what is left alone by a call of the store
storeRest ==
    <<hpc, tpc, spc, rpc, netVars, ingestVars, senderVars, received,
      executed, processVars, calls, queues, legacy, appendedTracks,
      indexVars>>

store_file ==
    /\ nCalls < MaxStoreCalls
    /\ \E unit \in StoreUnits, uuid8 \in Uuid8s :
         LET arguments == Put(FileArgs("plumbing"), "unit_number", unit)
             r == file_complaint(arguments, COMPLAINTS, uuid8, 0)
         IN  /\ lastCall' = [name |-> "file_complaint",
                             arguments |-> arguments, store |-> COMPLAINTS]
             /\ lastResult' = r
             /\ COMPLAINTS' = r.store
             /\ filed' = Append(filed,
                                [ticket_id |-> r.result.ticket_id,
                                 unit_number |-> unit])
    /\ nCalls' = nCalls + 1
    /\ UNCHANGED storeRest

store_check ==
    /\ nCalls < MaxStoreCalls
    /\ \E uuid8 \in Uuid8s :
         \E ticket_id \in IdVariants("MAD-" \o upper(uuid8)) :
           LET arguments == [ticket_id |-> ticket_id]
               r == check_complaint_status(arguments, COMPLAINTS, 0)
           IN  /\ lastCall' = [name |-> "check_complaint_status",
                               arguments |-> arguments, store |-> COMPLAINTS]
               /\ lastResult' = r
               /\ COMPLAINTS' = r.store
    /\ nCalls' = nCalls + 1
    /\ UNCHANGED filed
    /\ UNCHANGED storeRest

store_list ==
    /\ nCalls < MaxStoreCalls
    /\ \E unit \in StoreUnits :
         LET arguments == [unit_number |-> unit]
             r == list_tenant_complaints(arguments, COMPLAINTS)
         IN  /\ lastCall' = [name |-> "list_tenant_complaints",
                             arguments |-> arguments, store |-> COMPLAINTS]
             /\ lastResult' = r
             /\ COMPLAINTS' = r.store
    /\ nCalls' = nCalls + 1
    /\ UNCHANGED filed
    /\ UNCHANGED storeRest

StoreNext == store_file \/ store_check \/ store_list

StoreSpec == Init /\ [][StoreNext]_vars

(***************************************************************************)
(* CategorySpec: file_complaint with categories as a caller may write      *)
(* them: in the table's spelling, in other letter case, with surrounding   *)
(* whitespace, and not of the table.                                       *)
(***************************************************************************)
CategoryInputs ==
    {"gas_leak", "GAS_LEAK", " gas_leak ", "Plumbing", " Plumbing", " FIRE ",
     "rubbish", "other", "balcony", "Balcony", ""}

category_call ==
    /\ nCalls < MaxCalls
    /\ \E category \in CategoryInputs, uuid8 \in Uuid8s :
         LET r == file_complaint(FileArgs(category), COMPLAINTS, uuid8, 0)
         IN  /\ lastCall' = [name |-> "file_complaint",
                             arguments |-> FileArgs(category),
                             store |-> COMPLAINTS]
             /\ lastResult' = r
             /\ COMPLAINTS' = r.store
    /\ nCalls' = nCalls + 1
    /\ UNCHANGED <<hpc, tpc, spc, rpc, received, executed>>
    /\ UNCHANGED netVars /\ UNCHANGED ingestVars /\ UNCHANGED senderVars
    /\ UNCHANGED processVars /\ UNCHANGED sessionsVars

CategoryNext == category_call

CategorySpec == Init /\ [][CategoryNext]_vars

(***************************************************************************)
(* SlaSpec: _sla_to_words applied to every hour count up to MaxSlaHours.   *)
(***************************************************************************)
sla_call ==
    /\ nCalls < MaxCalls
    /\ \E hours \in 0..MaxSlaHours :
         /\ lastCall' = [name |-> "_sla_to_words", hours |-> hours]
         /\ lastResult' = sla_to_words(hours)
    /\ nCalls' = nCalls + 1
    /\ UNCHANGED <<hpc, tpc, spc, rpc, COMPLAINTS, received, executed>>
    /\ UNCHANGED netVars /\ UNCHANGED ingestVars /\ UNCHANGED senderVars
    /\ UNCHANGED processVars /\ UNCHANGED sessionsVars

SlaNext == sla_call

SlaSpec == Init /\ [][SlaNext]_vars

(***************************************************************************)
(* src/f/rag_engine.py: build_index.  A document is its file name and its  *)
(* text; a text is the sequence of its sections (what lies between the     *)
(* divider lines), a section the sequence of its words, a word a number.   *)
(* The collection is the sequence of its entries; ChromaDB and the         *)
(* embedding model are taken by their contracts.                           *)
(***************************************************************************)
CHUNK_SIZE == 400
CHUNK_OVERLAP == 80

\* the words from, from + 1, ..., n of them
Words(from, n) == [i \in 1..n |-> from + i - 1]

\* path.stem.replace("_", " ").title()
source_of(filename) ==
    CASE filename \in {"fire_safety.txt", "fire safety.txt"} -> "Fire Safety"
      [] filename = "tenancy.txt" -> "Tenancy"

Document(filename, text) ==
    [filename |-> filename, source |-> source_of(filename), text |-> text]

\* the knowledge bases build_index may find, each sorted by path: empty;
\* one document of two short sections; with it a document whose section of
\* 450 words is longer than a chunk; with it the same document after an
\* edit of its beginning; and two files whose names give the same source
\* and whose first sections begin alike
KnowledgeBases ==
    {<<>>,
     <<Document("fire_safety.txt", <<Words(1, 6), Words(11, 3)>>)>>,
     <<Document("fire_safety.txt", <<Words(1, 6), Words(11, 3)>>),
       Document("tenancy.txt", <<Words(1000, 450)>>)>>,
     <<Document("fire_safety.txt", <<Words(1, 6), Words(11, 3)>>),
       Document("tenancy.txt", <<Words(2000, 450)>>)>>,
     <<Document("fire safety.txt", <<Words(1, 5) \o <<99>>>>),
       Document("fire_safety.txt", <<Words(1, 6), Words(11, 3)>>)>>}

\* while i < len(w): section_texts.append(w[i: i + CHUNK_SIZE]);
\*                   i += CHUNK_SIZE - CHUNK_OVERLAP          (i from 0)
RECURSIVE windows(_, _, _)
windows(w, i, out) ==
    IF i < Len(w)
    THEN windows(w, i + (CHUNK_SIZE - CHUNK_OVERLAP),
                 Append(out, SubSeq(w, i + 1, Min(i + CHUNK_SIZE, Len(w)))))
    ELSE out

\* the loop over the sections: a section of at most CHUNK_SIZE words is one
\* text, a longer one is cut into windows
RECURSIVE section_texts(_, _)
section_texts(sections, out) ==
    IF sections = <<>> THEN out
    ELSE LET w == Head(sections)
         IN  section_texts(Tail(sections),
                           IF Len(w) <= CHUNK_SIZE THEN Append(out, w)
                           ELSE out \o windows(w, 0, <<>>))

\* hashlib.md5(f"{source}_{idx}_{content[:40]}").hexdigest(): the digest is
\* taken as the text it digests; content[:40] is the first words of content
chunk_id(source, idx, content) ==
    <<source, idx, SubSeq(content, 1, Min(40 \div WordChars, Len(content)))>>

\* _split_into_chunks(text, source); sections that are empty after strip
\* are dropped before the chunks are numbered
split_into_chunks(text, source) ==
    LET texts == section_texts(SelectSeq(text, LAMBDA sec : sec # <<>>), <<>>)
    IN  [n \in 1..Len(texts) |->
            [id |-> chunk_id(source, n - 1, texts[n]), text |-> texts[n],
             source |-> source, chunk_n |-> n - 1]]

\* collection.get(ids=...)["ids"]: those of the ids the collection holds
collection_get(coll, ids) ==
    {id \in ids : \E k \in 1..Len(coll) : coll[k].id = id}

\* the filter that lets every chunk pass: what C36_BuildIndexIdempotent must
\* exclude
new_chunks_all(chunks, existing_ids) == chunks

\* new_chunks = [c for c in chunks if c["id"] not in existing_ids]
new_chunks(chunks, existing_ids) ==
    SelectSeq(chunks, LAMBDA c : c.id \notin existing_ids)

\* the loop of build_index over the documents: the chunks of a document
\* that the collection does not hold yet are added to it
RECURSIVE ingest(_, _)
ingest(docs, coll) ==
    IF docs = <<>> THEN coll
    ELSE LET chunks == split_into_chunks(Head(docs).text, Head(docs).source)
             existing_ids ==
                 collection_get(coll, {chunks[n].id : n \in 1..Len(chunks)})
         IN  ingest(Tail(docs), coll \o new_chunks(chunks, existing_ids))

\* build_index(force_rebuild): the collection after the run and the total
\* returned, collection.count()
build_index(force_rebuild, docs, coll) ==
    LET after == ingest(docs, IF force_rebuild THEN <<>> ELSE coll)
    IN  [collection |-> after, total |-> Len(after)]

\* what a run of build_index leaves alone
indexRest ==
    <<hpc, tpc, spc, rpc, netVars, ingestVars, senderVars, COMPLAINTS,
      received, executed, processVars, calls, queues, legacy, appendedTracks,
      filed>>

\* a run of build_index; lastCall keeps what the run found and, of the run
\* before it, the knowledge base and the total
build_call ==
    /\ nCalls < MaxBuilds
    /\ \E force_rebuild \in BOOLEAN :
         LET r == build_index(force_rebuild, knowledge_base, chroma)
         IN  /\ lastCall' =
                   [name |-> "build_index", force_rebuild |-> force_rebuild,
                    knowledge_base |-> knowledge_base,
                    collection |-> chroma,
                    prev |-> IF nCalls = 0 THEN <<>>
                             ELSE <<[knowledge_base |-> lastCall.knowledge_base,
                                     total |-> lastResult]>>]
             /\ lastResult' = r.total
             /\ chroma' = r.collection
    /\ nCalls' = nCalls + 1
    /\ UNCHANGED knowledge_base
    /\ UNCHANGED indexRest

\* between two runs the files of knowledge_base/ are replaced
knowledge_edit ==
    /\ nCalls < MaxBuilds
    /\ \E kb \in KnowledgeBases :
         /\ kb # knowledge_base
         /\ knowledge_base' = kb
    /\ UNCHANGED <<chroma, lastCall, lastResult, nCalls>>
    /\ UNCHANGED indexRest

IndexNext == build_call \/ knowledge_edit

IndexSpec == Init /\ [][IndexNext]_vars

(***************************************************************************)
(* SessionsSpec: the server with several calls at the same time.           *)
(***************************************************************************)
SessionsNext ==
    \E s \in Sessions :
        \/ call_accept(s)
        \/ call_twilio_receiver_media(s, MaxPayload)
        \/ call_twilio_receiver_finally(s)
        \/ call_sts_sender_frame(s)
        \/ call_sts_sender_sentinel(s)
        \/ call_gather(s)

SessionsSpec == Init /\ [][SessionsNext]_vars

(***************************************************************************)
(* FnSpec: execute_function called directly, with every name and every     *)
(* shape of arguments.                                                     *)
(***************************************************************************)
direct_call ==
    /\ nCalls < MaxCalls
    /\ \E name \in CallNames, arguments \in CallArguments, uuid8 \in Uuid8s :
         LET r == execute_function(name, arguments, COMPLAINTS, uuid8, 0)
         IN  /\ lastCall' = [name |-> name, arguments |-> arguments,
                             store |-> COMPLAINTS]
             /\ lastResult' = r
             /\ COMPLAINTS' = r.store
    /\ nCalls' = nCalls + 1
    /\ UNCHANGED <<hpc, tpc, spc, rpc, received, executed>>
    /\ UNCHANGED netVars /\ UNCHANGED ingestVars /\ UNCHANGED senderVars
    /\ UNCHANGED processVars /\ UNCHANGED sessionsVars

FnNext == direct_call

FnSpec == Init /\ [][FnNext]_vars

(***************************************************************************)
(* Properties.                                                             *)
(***************************************************************************)
\* the audio frames sent on the agent connection, in the order sent
Forwarded ==
    LET IsAudio(m) == m.kind = "audio"
        sent == SelectSeq(sentToDg, IsAudio)
    IN  [i \in 1..Len(sent) |-> sent[i].bytes]

\* the audio frames waiting in the queue
Queued ==
    LET IsFrame(x) == x # None
    IN  SelectSeq(audio_queue, IsFrame)

SentinelEnqueued == tpc = "done"

AllDone == tpc = "done" /\ spc = "done" /\ rpc = "done"

\* the session's lifecycle state
Closed == hpc = "closed"

\* C5: every frame twilio_receiver puts on the audio queue has exactly
\* BYTES_PER_CHUNK bytes, and after each telephony message the residual
\* buffer holds fewer than BYTES_PER_CHUNK bytes; this also when the stream
\* has ended with bytes left in the buffer.
C5_FrameLength ==
    /\ \A i \in 1..Len(enq) : Len(enq[i]) = BYTES_PER_CHUNK
    /\ \A i \in 1..Len(audio_queue) :
            audio_queue[i] = None \/ Len(audio_queue[i]) = BYTES_PER_CHUNK
    /\ Len(buf) < BYTES_PER_CHUNK

\* the stream has ended after frames were enqueued, with bytes left in buf
C5_Witness ==
    /\ tpc = "done" /\ Len(enq) >= 2 /\ Len(buf) > 0
    /\ audio_queue # <<>> /\ audio_queue[Len(audio_queue)] = None

\* C6: the frames emitted so far, concatenated, followed by the residual
\* buffer are the concatenation of all payloads fed to the chunker.
C6_NoByteLost == Concat(enq) \o buf = fed

\* three payloads were fed, frames were emitted across payload boundaries
C6_Witness == nTw = MaxTwilioMsgs /\ Len(enq) >= 3 /\ Len(buf) > 0
                /\ Len(fed) > 3 * BYTES_PER_CHUNK

\* C1: after any one of the three tasks has ended, the session reaches
\* CLOSED (the other two tasks having been stopped).  asyncio.gather only
\* waits, so a task blocked on a silent connection keeps the session open.
C1_OneEndsAll == (tpc = "done" \/ spc = "done" \/ rpc = "done") ~> Closed

\* the sentinel is on the queue, or Agent Egress has taken it
SentinelPut == sentinelGot \/ \E i \in 1..Len(audio_queue) : audio_queue[i] = None

\* C2 as stated: after a stop event the sentinel is always consumed by Agent
\* Egress before the session is closed.
C2_SentinelAlwaysConsumed == (stopSeen /\ Closed) => sentinelGot

\* C2: a stop event ends Telephony Ingest and puts the sentinel on the
\* queue; the session then reaches CLOSED with all three tasks ended and
\* both connections closed, Agent Egress having consumed the sentinel unless
\* a send on the closed agent connection ended it before.
C2_StopEndsSession ==
    /\ [](stopSeen => tpc = "done" /\ SentinelPut)
    /\ []((stopSeen /\ Closed) =>
              /\ AllDone
              /\ dgState = "closed" /\ ~twOpen
              /\ sentinelGot \/ senderFault)
    /\ (stopSeen ~> Closed)

\* a stop event was read behind queued audio, and the session has closed
\* after Agent Egress took the sentinel
C2_Witness == stopSeen /\ Closed /\ sentinelGot /\ Len(enq) >= 1

\* C3 as stated: whatever Telephony Ingest enqueued has been forwarded when
\* both tasks have ended.
C3_AllForwarded == (tpc = "done" /\ spc = "done") => Forwarded = enq

\* C3: the frames forwarded are at every moment a prefix of the frames
\* enqueued, unmodified and in order; until a send fails, the frames
\* forwarded followed by the frames still queued are the frames enqueued;
\* once the sentinel is taken every frame has been forwarded; the sentinel
\* itself is never sent.
C3_Fifo ==
    /\ IsPrefix(Forwarded, enq)
    /\ ~senderFault => Forwarded \o Queued = enq
    /\ sentinelGot => Forwarded = enq
    /\ \A i \in 1..Len(sentToDg) :
            sentToDg[i].kind = "audio" => sentToDg[i].bytes # None

\* several frames were forwarded and the sentinel taken
C3_Witness == sentinelGot /\ Len(Forwarded) >= 2 /\ Forwarded = enq

\* C4 as stated: once the sentinel is enqueued and Agent Egress has ended,
\* every frame was forwarded and Agent Egress closed the agent connection
\* once.
C4_AlwaysDrainsAndCloses ==
    (SentinelEnqueued /\ spc = "done") => (Forwarded = enq /\ senderCloses = 1)

\* C4: once the sentinel is enqueued Agent Egress ends; it ends by taking
\* the sentinel, having forwarded every frame enqueued and closing the agent
\* connection once, or by a failed send on the closed agent connection,
\* closing nothing; the agent connection is never closed twice.
C4_SentinelEndsEgress ==
    /\ [](sentinelGot =>
              Forwarded = enq /\ senderCloses = 1 /\ dgState = "closed")
    /\ [](senderCloses <= 1 /\ dgClosings <= 1)
    /\ [](spc = "done" => sentinelGot \/ senderFault)
    /\ [](senderFault => ~sentinelGot /\ senderCloses = 0)
    /\ (SentinelEnqueued ~> spc = "done")

\* Agent Egress has ended on the sentinel behind forwarded frames, its close
\* being the one that closed the agent connection
C4_Witness ==
    /\ spc = "done" /\ sentinelGot /\ Len(Forwarded) >= 1
    /\ senderCloses = 1 /\ dgClosings = 1

\* the FunctionCallResponses sent on the agent connection, in the order sent
Responses ==
    LET IsResponse(m) == m.kind = "FunctionCallResponse"
    IN  SelectSeq(sentToDg, IsResponse)

\* C7: the i-th FunctionCallResponse carries the id and the name of the i-th
\* request the bridge executed, whatever the capability did (returned,
\* raised, or was unknown); so no response carries an id that no request
\* brought, and while Agent Ingress runs every executed request has its
\* response.
C7_ResponseCarriesId ==
    /\ Len(Responses) <= Len(executed)
    /\ \A i \in 1..Len(Responses) :
          /\ Responses[i].data.id = executed[i].id
          /\ Responses[i].data.name = executed[i].name
          /\ \E j \in 1..Len(received) : received[j].id = Responses[i].data.id
    /\ rpc = "run" => Len(Responses) = Len(executed)

\* two responses with different ids: one to an unknown function, one to a
\* call whose binding raised TypeError
C7_Witness ==
    \E i, j \in 1..Len(Responses) :
        /\ Responses[i].data.name = "transfer_call"
        /\ Responses[i].data.id = "c2"
        /\ Responses[j].data.name = "file_complaint"
        /\ Responses[j].data.id = "c1"
        /\ json_loads(Responses[j].data.content).success = FALSE

\* C8: the content of a registered capability's result always has the
\* CapabilityResult shape: a boolean success, and an error when success is
\* false.  verify_tenant, check_complaint_status, list_tenant_complaints and
\* get_complaint_categories return objects without success.
C8_UniformShape ==
    (nCalls > 0 /\ lastCall.name \in DOMAIN FUNCTION_MAP) =>
        LET body == json_loads(lastResult.content)
        IN  /\ "success" \in DOMAIN body
            /\ body.success \in BOOLEAN
            /\ body.success = FALSE => "error" \in DOMAIN body

\* the request is one the bridge executes: client_side is true or absent
ClientSide(req) == "client_side" \notin DOMAIN req \/ req.client_side = "true"

\* C9 as stated: every request the bridge executed carried client_side true.
C9_OnlyWhenTrue ==
    \A i \in 1..Len(executed) :
        "client_side" \in DOMAIN executed[i] /\ executed[i].client_side = "true"

\* C9: the bridge executes, and answers, exactly the requests whose
\* client_side is true or absent; reading any other request runs no
\* capability, leaves the domain state as it was and sends nothing.
C9_ClientSideOrAbsent ==
    /\ [](executed = SelectSeq(received, ClientSide))
    /\ [](Len(Responses) <= Len(executed))
    /\ [][(Len(received') > Len(received)
           /\ ~ClientSide(received'[Len(received')]))
          => UNCHANGED <<COMPLAINTS, executed, sentToDg, sentToTwilio, rpc>>]_vars

\* a request with client_side false was read and skipped, one without the
\* field was executed and answered
C9_Witness ==
    /\ \E i \in 1..Len(received) :
          "client_side" \in DOMAIN received[i] /\ received[i].client_side = "false"
    /\ \E j \in 1..Len(executed) : "client_side" \notin DOMAIN executed[j]
    /\ Len(Responses) = 1 /\ Len(received) = 2

\* C10: execute_function with a name that is not in FUNCTION_MAP raises
\* nothing; its result has success false and an error that names the
\* function; the domain state is as before the call.  (FUNCTION_MAP is a
\* constant of the module: no call can change it.)
C10_UnknownFunction ==
    (nCalls > 0 /\ lastCall.name \notin DOMAIN FUNCTION_MAP) =>
        LET body == json_loads(lastResult.content)
        IN  /\ ~lastResult.raised
            /\ body.success = FALSE
            /\ body.error = <<"Unknown function: ", lastCall.name>>
            /\ COMPLAINTS = lastCall.store

\* an unknown name was called after a complaint had been filed
C10_Witness ==
    /\ nCalls > 0
    /\ lastCall.name = "search_knowledge_base"
    /\ lastCall.store # <<>>
    /\ ~lastResult.raised

\* the call that req asks for raises: a registered capability that cannot
\* take req's arguments, or that fails on them
Faults(req, store) ==
    LET name == Get(req, "name", "None")
    IN  /\ name \in DOMAIN FUNCTION_MAP
        /\ \A uuid8 \in Uuid8s :
              call(name, Get(req, "arguments", <<>>), store, uuid8, 0).raised

\* C11: when the bridge executes a request whose capability call raises
\* (arguments missing, one too many, or no mapping at all), the fault is
\* caught: with the agent connection open, a FunctionCallResponse with the
\* request's id and a failed result naming the fault is sent, and Agent
\* Ingress keeps running; nothing is raised to Agent Ingress in any case.
C11_FaultIsAnswered ==
    [][(Len(executed') = Len(executed) + 1
        /\ Faults(executed'[Len(executed')], COMPLAINTS))
       => LET req == executed'[Len(executed')]
              sent == sentToDg'[Len(sentToDg')]
          IN  /\ COMPLAINTS' = COMPLAINTS
              /\ dgState = "open" =>
                    /\ rpc' = "run"
                    /\ Len(sentToDg') = Len(sentToDg) + 1
                    /\ sent.kind = "FunctionCallResponse"
                    /\ sent.data.id = req.id
                    /\ json_loads(sent.data.content).success = FALSE
                    /\ "error" \in DOMAIN json_loads(sent.data.content)
              /\ dgState # "open" => sentToDg' = sentToDg]_vars

\* a call with a missing argument was answered with a failed result, and
\* Agent Ingress went on to the next request and answered it
C11_Witness ==
    /\ Len(Responses) = 2 /\ Len(executed) = 2 /\ rpc = "run"
    /\ executed[1].id = "c3"
    /\ json_loads(Responses[1].data.content).success = FALSE
    /\ Responses[2].data.id = executed[2].id

\* the frames of the agent that sts_receiver has read, in the order emitted
FramesRead == SubSeq(emitted, 1, Len(emitted) - Len(dgInbox))

IsBargeIn(frame) == frame.kind = "UserStartedSpeaking"

IsClear(event) == event.event = "clear"

\* how many of the frames are barge-ins, how many of the events are clears
BargeIns(frames) ==
    Cardinality({i \in 1..Len(frames) : IsBargeIn(frames[i])})

Clears(events) == Cardinality({i \in 1..Len(events) : IsClear(events[i])})

EventsFor(frame) ==
    IF frame.kind = "audio"
    THEN <<[event |-> "media", streamSid |-> stream_sid,
            payload |-> b64encode(frame.bytes)]>>
    ELSE IF frame.kind = "UserStartedSpeaking"
    THEN <<[event |-> "clear", streamSid |-> stream_sid]>>
    ELSE <<>>

RECURSIVE EventsOf(_)
EventsOf(frames) ==
    IF frames = <<>> THEN <<>>
    ELSE EventsFor(Head(frames)) \o EventsOf(Tail(frames))

\* C13: what was sent to telephony is, event by event and in the same
\* order, what the frames read from the agent connection call for: while
\* Agent Ingress runs, exactly the events of the frames read; after it has
\* ended, a prefix of them (a send on the closed telephony connection ends
\* the task).  The frames not yet read are the last frames emitted.
C13_AgentOrder ==
    /\ dgInbox = SubSeq(emitted, Len(emitted) - Len(dgInbox) + 1, Len(emitted))
    /\ IsPrefix(sentToTwilio, EventsOf(FramesRead))
    /\ rpc = "run" => sentToTwilio = EventsOf(FramesRead)

\* audio, a barge-in and audio again were emitted and reached telephony
C13_Witness ==
    /\ Len(sentToTwilio) = 3
    /\ sentToTwilio[1].event = "media" /\ sentToTwilio[2].event = "clear"
    /\ sentToTwilio[3].event = "media"
    /\ sentToTwilio[1].payload # sentToTwilio[3].payload

\* the three tasks were started: the configuration was sent
Started == sentToDg # <<>>

\* C14: when handle_twilio_connection has finished, no task is running
\* (all three have ended, or, when the session failed before the
\* configuration was sent, none was ever started), the agent connection is
\* not open and the telephony connection is closed.
C14_ClosedMeansAllEnded ==
    Closed =>
        /\ Started => AllDone
        /\ ~Started => tpc = "idle" /\ spc = "idle" /\ rpc = "idle"
        /\ dgState # "open"
        /\ Started => dgState = "closed"
        /\ ~twOpen

\* a session that relayed audio both ways has finished, the agent having
\* closed its connection and no stop event having come
C14_Witness ==
    /\ Closed /\ AllDone /\ dgState = "closed" /\ ~twOpen
    /\ ~stopSeen /\ sentToTwilio # <<>> /\ Forwarded # <<>>

\* C15: reading a malformed telephony message (text that is not JSON, a
\* media event without a decodable payload) leaves Telephony Ingest running
\* and puts nothing on the audio queue.  In twilio_receiver the try block
\* is around the loop: the exception ends the task and the finally clause
\* enqueues the sentinel.
C15_MalformedSkipped ==
    [][twilio_receiver_fault =>
           /\ tpc' = "run"
           /\ audio_queue' = audio_queue]_vars

\* sts_receiver reads the frame at the head of the agent's frames
ReadsFrame == rpc = "run" /\ dgInbox # <<>> /\ dgInbox' = Tail(dgInbox)

C17_TaggedWithStartSid ==
    [][(startSid # "None" /\ Len(sentToTwilio') = Len(sentToTwilio) + 1)
       => sentToTwilio'[Len(sentToTwilio')].streamSid = startSid]_vars

IsConfig(m) == m.kind = "config"

\* C18: the first message sent on the agent connection is the
\* configuration, and it is the only configuration sent; a task has left
\* its initial state only after the configuration was sent, so no audio
\* frame and no FunctionCallResponse precedes it.
C18_ConfigFirst ==
    /\ sentToDg # <<>> => IsConfig(sentToDg[1])
    /\ Cardinality({i \in 1..Len(sentToDg) : IsConfig(sentToDg[i])}) <= 1
    /\ (tpc # "idle" \/ spc # "idle" \/ rpc # "idle") =>
            (sentToDg # <<>> /\ IsConfig(sentToDg[1]))
    /\ hpc \in {"load_config", "connect", "send_config"} => sentToDg = <<>>

\* the configuration, then audio and a FunctionCallResponse were sent
C18_Witness ==
    /\ Len(sentToDg) >= 3 /\ IsConfig(sentToDg[1])
    /\ \E i, j \in 2..Len(sentToDg) :
          sentToDg[i].kind = "audio" /\ sentToDg[j].kind = "FunctionCallResponse"

\* the names the schema advertises
Advertised == {FUNCTION_DEFINITIONS[i].name : i \in DOMAIN FUNCTION_DEFINITIONS}

\* C19: the configuration sent on the agent connection carries
\* FUNCTION_DEFINITIONS, whose names are exactly the keys of FUNCTION_MAP,
\* each once; each definition requires exactly the parameters its function
\* has no default for and describes exactly the parameters the function
\* takes.
C19_SchemaMatchesRegistry ==
    /\ Advertised = DOMAIN FUNCTION_MAP
    /\ Len(FUNCTION_DEFINITIONS) = Cardinality(DOMAIN FUNCTION_MAP)
    /\ \A i \in DOMAIN FUNCTION_DEFINITIONS :
          LET def == FUNCTION_DEFINITIONS[i]
              sig == FUNCTION_MAP[def.name]
          IN  /\ def.parameters.required = sig.required
              /\ def.parameters.properties = sig.required \cup sig.optional
    /\ \A i \in 1..Len(sentToDg) :
          IsConfig(sentToDg[i]) =>
              json_loads(sentToDg[i].data).agent.think.functions
                  = FUNCTION_DEFINITIONS

\* the configuration was sent, and a call of an advertised function with
\* the advertised argument was executed and answered
C19_Witness ==
    /\ Started
    /\ Len(json_loads(sentToDg[1].data).agent.think.functions) = 6
    /\ \E i \in 1..Len(Responses) :
          /\ Responses[i].data.name \in Advertised
          /\ json_loads(Responses[i].data.content).verified = TRUE

\* C20: a task that meets a closed connection returns: Telephony Ingest on
\* the closed telephony connection (putting the sentinel), Agent Egress on
\* a send that fails, Agent Ingress on a send to closed telephony or at the
\* end of the closed agent connection.  A task leaves "run" only to end
\* ("done": it returned; Agent Egress first awaits its close), never with
\* an exception of its own, and asyncio.gather returns only with all three
\* ended.
C20_FaultsEndTasksNormally ==
    /\ [](/\ tpc \in {"idle", "run", "done"}
          /\ spc \in {"idle", "run", "closing", "done"}
          /\ rpc \in {"idle", "run", "done"})
    /\ [][(tpc = "run" /\ ~twOpen /\ tpc' # tpc)
          => (tpc' = "done" /\ audio_queue' = Append(audio_queue, None))]_vars
    /\ [][(spc = "run" /\ audio_queue # <<>> /\ Head(audio_queue) # None
           /\ audio_queue' = Tail(audio_queue) /\ dgState # "open")
          => (spc' = "done" /\ sentToDg' = sentToDg)]_vars
    /\ [][(ReadsFrame /\ ~twOpen
           /\ Head(dgInbox).kind \in {"audio", "UserStartedSpeaking"})
          => (rpc' = "done" /\ sentToTwilio' = sentToTwilio)]_vars
    /\ [][(rpc = "run" /\ dgInbox = <<>> /\ dgState = "closed" /\ rpc' # rpc)
          => rpc' = "done"]_vars
    /\ [][(hpc = "gather" /\ hpc' # hpc) => (hpc' = "exit_dg" /\ AllDone)]_vars

\* asyncio.gather has returned after a send of Agent Egress failed on the
\* closed agent connection and telephony had closed
C20_Witness ==
    /\ hpc = "exit_dg" /\ AllDone /\ senderFault /\ ~twOpen /\ ~stopSeen


\* _handle_function_call is in progress: the request last executed is being
\* answered
InProgress == rpc = "send"

\* C21 as stated: while one request is in progress, a request with another
\* id that the agent has sent can be taken up, without waiting for the first
\* to complete.
C21_ServedConcurrently ==
    (/\ InProgress
     /\ dgInbox # <<>>
     /\ Head(dgInbox).kind = "FunctionCallRequest"
     /\ Head(dgInbox).data.id # executed[Len(executed)].id)
    => ENABLED sts_receiver_function_call_send

\* C21: the requests of one session are served one at a time, in the order
\* the agent sent them: sts_receiver awaits _handle_function_call, so a
\* request is read only when none is in progress, and a request that
\* arrives meanwhile waits; the responses leave in the order of the
\* requests executed, each under its own id.
C21_ServedInTurn ==
    /\ [][Len(received') > Len(received) => ~InProgress]_vars
    /\ [](InProgress => ~ENABLED sts_receiver_function_call_send)
    /\ [](InProgress => Len(Responses) = Len(executed))
    /\ [](\A i \in 1..Len(Responses) :
              Responses[i].data.id = executed[i].id)

\* the first request is being answered while a request with another id
\* waits unread
C21_Witness ==
    /\ InProgress /\ Len(executed) = 1 /\ Len(Responses) = 1
    /\ dgInbox # <<>>
    /\ Head(dgInbox).kind = "FunctionCallRequest"
    /\ Head(dgInbox).data.id # executed[1].id

\* C25: the response to a verify_tenant request carries the request's id;
\* for the unit number of a registered tenant (blanks around it aside) its
\* content is the positive verification: verified true, the unit number as
\* given and the tenant's name (Priya Sharma for "101"); for any other unit
\* number it is the negative verification, verified false with a message
\* and no error, and Agent Ingress goes on.
C25_VerifyTenant ==
    /\ \A i \in 1..Len(Responses) :
          LET req == executed[i]
              body == json_loads(Responses[i].data.content)
              unit == req.arguments.unit_number
          IN  req.name = "verify_tenant" =>
                /\ Responses[i].data.id = req.id
                /\ Responses[i].data.name = "verify_tenant"
                /\ IF strip(unit) \in DOMAIN TENANTS
                   THEN /\ body = [verified |-> TRUE, unit_number |-> unit,
                                   tenant_name |-> TENANTS[strip(unit)].name]
                        /\ unit = "101" => body.tenant_name = "Priya Sharma"
                   ELSE /\ DOMAIN body = {"verified", "message"}
                        /\ body.verified = FALSE
    /\ (rpc \in {"run", "send"} /\ dgState = "open") =>
            Len(Responses) = Len(executed)
    /\ COMPLAINTS = <<>>

\* unit 101 was verified under c1 and unit 999 refused under c2, and Agent
\* Ingress is running
C25_Witness ==
    /\ Len(Responses) = 2 /\ rpc = "run"
    /\ \E i, j \in 1..2 :
          /\ Responses[i].data.id = "c1"
          /\ json_loads(Responses[i].data.content).verified = TRUE
          /\ json_loads(Responses[i].data.content).unit_number = "101"
          /\ Responses[j].data.id = "c2"
          /\ json_loads(Responses[j].data.content).verified = FALSE

\* C26: file_complaint for a category c of the category table succeeds with
\* a ticket id (MAD- and eight upper-case characters, the key of the ticket
\* it stored), is_emergency true exactly when c is an emergency category,
\* the SLA hours of c's table entry and the description of those hours.
\* For gas_leak: is_emergency true, 1 hour, "within 1 hour"; medical
\* emergencies are immediate, plumbing has one working day, rubbish three.
C26_FileComplaint ==
    (nCalls > 0 /\ lastCall.name = "file_complaint") =>
        LET c == lastCall.arguments.category
            body == json_loads(lastResult.content)
        IN  /\ ~lastResult.raised
            /\ body.success = TRUE
            /\ body.ticket_id \in {"MAD-A1B2C3D4", "MAD-0F9E8D7C"}
            /\ body.ticket_id \in DOMAIN COMPLAINTS
            /\ COMPLAINTS[body.ticket_id].category = c
            /\ body.is_emergency = (c \in EMERGENCY_CATEGORIES)
            /\ body.sla_hours = COMPLAINT_CONFIG[c].sla_hours
            /\ body.sla_description = sla_to_words(COMPLAINT_CONFIG[c].sla_hours)
            /\ c = "gas_leak" =>
                  /\ body.is_emergency = TRUE
                  /\ body.sla_hours = 1
                  /\ body.sla_description = <<"within 1 hour">>
            /\ c = "medical_emergency" =>
                  body.sla_description = <<"immediate - call 999 now">>
            /\ c = "lift" => body.sla_description = <<"within", 12, "hours">>
            /\ c = "plumbing" =>
                  body.sla_description = <<"within", 1, "working day">>
            /\ c = "rubbish" =>
                  /\ body.is_emergency = FALSE
                  /\ body.sla_description = <<"within", 3, "working days">>

\* a gas leak was filed after a non-emergency complaint
C26_Witness ==
    /\ nCalls = 2 /\ lastCall.name = "file_complaint"
    /\ lastCall.arguments.category = "gas_leak"
    /\ json_loads(lastResult.content).is_emergency = TRUE
    /\ \E t \in DOMAIN lastCall.store : ~lastCall.store[t].is_emergency

\* everything of the session but the agent's unread frames
SessionState ==
    <<hpc, tpc, spc, rpc, twOpen, dgState, dgClosings, sentToDg, sentToTwilio,
      buf, audio_queue, enq, sentinelGot, senderFault, senderCloses,
      COMPLAINTS, received, executed>>

\* C23: reading an AgentError or an AgentWarning changes nothing of the
\* session: Agent Ingress keeps running and can read the next frame,
\* nothing is sent on either connection, no connection and no task changes,
\* and the handler stays in asyncio.gather (the session ACTIVE).
C23_AlertsOnlyLogged ==
    /\ [][(ReadsFrame /\ Head(dgInbox).kind \in Alerts)
          => (UNCHANGED SessionState /\ rpc' = "run" /\ hpc' = "gather")]_vars
    /\ []((rpc = "run" /\ dgInbox # <<>> /\ Head(dgInbox).kind \in Alerts)
            => ENABLED sts_receiver_skip)

\* an AgentError was read, and the audio the agent sent after it reached
\* telephony, the session being active
C23_Witness ==
    /\ Len(emitted) = 2 /\ dgInbox = <<>>
    /\ emitted[1].kind = "AgentError" /\ emitted[2].kind = "audio"
    /\ Len(sentToTwilio) = 1 /\ rpc = "run" /\ hpc = "gather"

SentinelsPut ==
    Cardinality({i \in 1..Len(audio_queue) : audio_queue[i] = None})
    + (IF sentinelGot THEN 1 ELSE 0)

\* C29: Telephony Ingest ends, on a stop event, on the closed telephony
\* connection or on a fault, by putting the sentinel; from then on exactly
\* one sentinel has been put, before that none; a sentinel in the queue is
\* its last item, and once Telephony Ingest has ended nothing is put on the
\* queue any more (the queue only loses its head).
C29_OneSentinelLast ==
    /\ [](tpc = "done" => SentinelsPut = 1)
    /\ [](tpc # "done" => SentinelsPut = 0)
    /\ [](\A i \in 1..Len(audio_queue) :
              audio_queue[i] = None => i = Len(audio_queue))
    /\ [][(tpc = "run" /\ tpc' # "run")
          => (tpc' = "done" /\ audio_queue' = Append(audio_queue, None)
              /\ enq' = enq)]_vars
    /\ [][tpc = "done"
          => (/\ tpc' = "done" /\ enq' = enq
              /\ \/ audio_queue' = audio_queue
                 \/ /\ audio_queue # <<>>
                    /\ audio_queue' = Tail(audio_queue))]_vars

\* Telephony Ingest ended on a fault (no stop event, telephony open) behind
\* queued audio, and Agent Egress has taken the sentinel
C29_Witness ==
    /\ tpc = "done" /\ ~stopSeen /\ twOpen /\ hpc = "gather"
    /\ Len(enq) >= 2 /\ sentinelGot /\ audio_queue = <<>>

\* C30: when the handler has finished, the telephony connection is closed,
\* and the handler finishes only through its finally clause; when
\* load_config or the opening of the agent connection fails, the handler
\* goes to the finally clause with no task started and nothing sent to
\* telephony or to the agent, and so it stays to the end.
C30_TelephonyAlwaysClosed ==
    /\ [](Closed => ~twOpen)
    /\ [][(hpc # "closed" /\ hpc' = "closed")
          => (hpc = "finally" /\ ~twOpen')]_vars
    /\ [][(hpc \in {"load_config", "connect"} /\ hpc' = "finally")
          => (/\ tpc = "idle" /\ spc = "idle" /\ rpc = "idle"
              /\ sentToTwilio = <<>> /\ sentToDg = <<>>
              /\ dgState = "none")]_vars
    /\ []((hpc \in {"finally", "closed"} /\ dgState = "none")
            => (/\ tpc = "idle" /\ spc = "idle" /\ rpc = "idle"
                /\ sentToTwilio = <<>> /\ sentToDg = <<>>))

\* the handler has finished after the agent connection could not be opened
\* (or the configuration not loaded)
C30_Witness ==
    /\ Closed /\ ~twOpen /\ dgState = "none"
    /\ tpc = "idle" /\ spc = "idle" /\ rpc = "idle" /\ sentToTwilio = <<>>

C22_OwnQueue ==
    /\ \A s, t \in Sessions :
          (s # t /\ calls[s].audio_queue # 0) =>
              calls[s].audio_queue # calls[t].audio_queue
    /\ \A s \in Sessions :
          /\ IsPrefix(calls[s].sent, calls[s].enq)
          /\ calls[s].sentinelGot => calls[s].tpc = "done"
          /\ calls[s].audio_queue # 0 =>
                \A i \in 1..Len(queues[calls[s].audio_queue]) :
                   LET item == queues[calls[s].audio_queue][i]
                   IN  \/ item = None /\ calls[s].tpc = "done"
                       \/ \E k \in 1..Len(calls[s].enq) : calls[s].enq[k] = item
          /\ \A t \in Sessions :
                s # t => \A i \in 1..Len(calls[s].sent) :
                            \A k \in 1..Len(calls[t].enq) :
                               calls[s].sent[i] # calls[t].enq[k]

\* two calls at the same time: the first has forwarded its audio and taken
\* its sentinel, the second is forwarding its own audio and still runs
C22_Witness ==
    /\ calls[1].sentinelGot /\ Len(calls[1].sent) = 2
    /\ calls[2].tpc = "run" /\ calls[2].spc = "run"
    /\ Len(calls[2].sent) = 1 /\ Len(queues[calls[2].audio_queue]) = 1

\* the legacy relay is past its start-up, telephony has sent stop or has
\* closed, and the agent connection has closed
LegacyEnded ==
    /\ legacy.hpc = "wait"
    /\ legacy.stopSeen \/ ~legacy.twOpen
    /\ legacy.sts = "closed"

\* C31: in the legacy relay, once telephony has sent stop or closed and the
\* agent connection has closed, the three tasks terminate and the handler
\* closes the telephony connection: the relay never comes to rest, with
\* no step left to any task or to the handler, before that.
C31_LegacyTeardown ==
    (LegacyEnded /\ ~ENABLED LegacyNext) =>
        /\ legacy.tpc = "done" /\ legacy.spc = "done" /\ legacy.rpc = "done"
        /\ ~legacy.twOpen

\* the legacy relay: every media event whose payload was appended to
\* inbuffer names the inbound track
LegacyInboundOnly ==
    \A i \in 1..Len(legacy.appended) : legacy.appended[i] = "inbound"

\* C32: only telephony audio of the inbound track is forwarded to the
\* agent: every media event whose payload twilio_receiver appended to its
\* chunk buffer, in src/f/main.py and in the legacy relay, names the
\* inbound track.
C32_InboundOnly ==
    /\ \A i \in 1..Len(appendedTracks) : appendedTracks[i] = "inbound"
    /\ LegacyInboundOnly

\* the calls of file_complaint so far that gave unit number u
FiledFor(u) == {i \in 1..Len(filed) : filed[i].unit_number = u}

\* C33: after any sequence of file_complaint calls every ticket id ever
\* returned is found by check_complaint_status, in any letter case and with
\* surrounding whitespace; list_tenant_complaints(u) returns exactly the
\* tickets filed with unit number u, with count equal to their number (and
\* finds nothing when none was filed); and every ticket filed is still in
\* the store, under its id, with its unit number and with status open.
C33_TicketsKept ==
    /\ \A i \in 1..Len(filed) :
          /\ \A t \in IdVariants(filed[i].ticket_id) :
                check_complaint_status([ticket_id |-> t], COMPLAINTS, 0)
                    .result.found
          /\ filed[i].ticket_id \in DOMAIN COMPLAINTS
          /\ COMPLAINTS[filed[i].ticket_id].unit_number = filed[i].unit_number
          /\ COMPLAINTS[filed[i].ticket_id].status = "open"
    /\ \A u \in StoreUnits :
          LET r == list_tenant_complaints([unit_number |-> u],
                                          COMPLAINTS).result
          IN  IF FiledFor(u) = {} THEN ~r.found
              ELSE /\ r.found
                   /\ r.count = Cardinality(FiledFor(u))
                   /\ {c.ticket_id : c \in r.complaints} =
                         {filed[i].ticket_id : i \in FiledFor(u)}

\* the tickets filed so far have pairwise distinct ids
DistinctIds ==
    \A i, j \in 1..Len(filed) : filed[i].ticket_id = filed[j].ticket_id => i = j

\* the same, for the runs in which uuid4 never repeats its first eight
\* digits
TicketsKeptIfDistinct == DistinctIds => C33_TicketsKept

\* the category each input of CategoryInputs stands for
Meant ==
    [c \in CategoryInputs |->
        CASE c \in {"gas_leak", "GAS_LEAK", " gas_leak "} -> "gas_leak"
          [] c \in {"Plumbing", " Plumbing"} -> "plumbing"
          [] c = " FIRE " -> "fire"
          [] c = "rubbish" -> "rubbish"
          [] c \in {"other", "balcony", "Balcony", ""} -> "other"]

\* C34: file_complaint never fails on the category: the category is
\* compared with the table without regard to letter case and surrounding
\* whitespace, a category that is not in the table is filed as "other"
\* (no emergency, 48 hours, Property Management), and the record stored and
\* the result returned both carry the table entry of that category.
C34_CategoryNormalised ==
    (nCalls > 0 /\ lastCall.name = "file_complaint"
                /\ lastCall.arguments.category \in CategoryInputs) =>
        LET category == Meant[lastCall.arguments.category]
            cfg == COMPLAINT_CONFIG[category]
            result == lastResult.result
        IN  /\ ~lastResult.raised
            /\ result.success = TRUE
            /\ result.ticket_id \in DOMAIN COMPLAINTS
            /\ LET record == COMPLAINTS[result.ticket_id]
               IN  /\ record.category = category
                   /\ record.label = cfg.label /\ result.label = cfg.label
                   /\ record.team = cfg.team /\ result.team = cfg.team
                   /\ record.sla_hours = cfg.sla_hours
                   /\ result.sla_hours = cfg.sla_hours
                   /\ record.priority = cfg.priority
                   /\ record.is_emergency = (category \in EMERGENCY_CATEGORIES)
                   /\ result.is_emergency = record.is_emergency
                   /\ category = "other" =>
                         /\ ~record.is_emergency
                         /\ record.sla_hours = 48
                         /\ record.team = "Property Management"
                         /\ record.label = "General Complaint"

\* a category unknown to the table was filed as "other" after a category
\* written in capitals with whitespace around it was filed as fire
C34_Witness ==
    /\ nCalls = 2 /\ lastCall.name = "file_complaint"
    /\ lastCall.arguments.category = "Balcony"
    /\ ~lastResult.raised
    /\ COMPLAINTS[lastResult.result.ticket_id].category = "other"
    /\ \E t \in DOMAIN lastCall.store :
          /\ lastCall.store[t].category = "fire"
          /\ t # lastResult.result.ticket_id

\* the description of each SLA of the category table, written out
TableWords ==
    [h \in {COMPLAINT_CONFIG[c].sla_hours : c \in DOMAIN COMPLAINT_CONFIG} |->
        CASE h = 0 -> <<"immediate - call 999 now">>
          [] h = 1 -> <<"within 1 hour">>
          [] h = 2 -> <<"within", 2, "hours">>
          [] h = 4 -> <<"within", 4, "hours">>
          [] h = 12 -> <<"within", 12, "hours">>
          [] h = 24 -> <<"within", 1, "working day">>
          [] h = 48 -> <<"within", 2, "working days">>
          [] h = 72 -> <<"within", 3, "working days">>]

\* C35: _sla_to_words maps 0 hours to the immediate/999 wording, 1 to
\* "within 1 hour", 2..23 to "within h hours", and h >= 24 to "within d
\* working day(s)" where d is the number of whole days in h (24 d <= h <
\* 24 (d + 1)) and the plural is used exactly when d > 1; every entry of the
\* category table gets the description of its sla_hours.
C35_SlaToWords ==
    /\ (nCalls > 0 /\ lastCall.name = "_sla_to_words") =>
          LET h == lastCall.hours
              words == lastResult
          IN  /\ h = 0 => words = <<"immediate - call 999 now">>
              /\ h = 1 => words = <<"within 1 hour">>
              /\ h \in 2..23 => words = <<"within", h, "hours">>
              /\ h >= 24 =>
                    \E d \in 1..h :
                       /\ 24 * d <= h /\ h < 24 * (d + 1)
                       /\ words = <<"within", d,
                                    IF d > 1 THEN "working days"
                                    ELSE "working day">>
    /\ \A c \in DOMAIN COMPLAINT_CONFIG :
          sla_to_words(COMPLAINT_CONFIG[c].sla_hours) =
              TableWords[COMPLAINT_CONFIG[c].sla_hours]

\* the second call asks for 47 hours: one whole day, in the singular
C35_Witness ==
    /\ nCalls = 2 /\ lastCall.name = "_sla_to_words"
    /\ lastCall.hours = 47 /\ lastResult = <<"within", 1, "working day">>

\* the entries of the collection under id
Entries(id) == {k \in 1..Len(chroma) : chroma[k].id = id}

============================================================================
